---- MODULE Spec2Model ----
(***************************************************************************)
(* Model of the asynchronous upload-job orchestrator of                    *)
(* x402_ipfs_service.py: PinataUploader.upload_file (retry and backoff),   *)
(* UploadJob (per-job state guarded by the job's lock, run() as the        *)
(* worker thread) and JobManager (registry guarded by the manager's lock). *)
(*                                                                         *)
(* Threads are the worker of each job and the request handlers (clients).  *)
(* A `with lock:` block is two steps, the acquisition and the body with    *)
(* the release, except where the body holds two statements whose           *)
(* intermediate state another thread could see without the lock            *)
(* (_record_result, _record_error): those are three steps.                 *)
(*                                                                         *)
(* Durations are in units of the configured base backoff's unit; an HTTP   *)
(* exchange is one step whose response the environment chooses. A 2xx      *)
(* response carries the JSON object of the provider's protocol.            *)
(***************************************************************************)
EXTENDS Integers, Sequences, FiniteSets, TLC

\* ---------------------------------------------------------------- bounds
NumJobs == 2          \* job slots
NumClients == 2       \* request-handler threads
MaxFiles == 2         \* longest file list of the job specification
MaxBatchSize == 2     \* largest batch_size of the job specification
MaxRetriesBound == 3  \* largest MAX_RETRIES of the upload specification
MaxBackoff == 2       \* largest BASE_BACKOFF of the upload specification
ScenarioFiles == 5    \* the long file list of the run specification


UploadCids == {"QmA", "QmB"}

VARIABLES
    \* configuration read from the environment at import
    MAX_RETRIES, BASE_BACKOFF, BATCH_PAUSE,
    \* main(): the credentials read and the PinataUploader made from them
    uploader,
    \* JobManager
    jobs, mgr_lock,
    \* UploadJob fields, per job
    status, uploaded, total, results, errors, rate_limit_hits, files,
    batch_size, lock,
    \* worker thread of each job: position and locals of run() / upload_file()
    pc, total_batches, batch_index, consumed, batch, file_path, attempt,
    sleep_for, exc, result, cont,
    \* what each worker did: events of the current upload_file call, pauses,
    \* 429 responses received
    log, pauses, hits429,
    \* request handlers: position, job argument, last return value, last snapshot
    cpc, cjob, cret, snap,
    \* pinata_batch_upload.main(): position, the files found and the
    \* --batch-size argument, the locals batches, index and results, and
    \* what the run did: _upload_batch calls with their outcome, and pauses
    cli_pc, cli_files, cli_batch_size, cli_batches, cli_index, cli_results,
    cli_log

confVars == <<MAX_RETRIES, BASE_BACKOFF, BATCH_PAUSE, uploader>>
mgrVars == <<jobs, mgr_lock>>
fieldVars == <<status, uploaded, total, results, errors, rate_limit_hits,
               files, batch_size>>
localVars == <<total_batches, batch_index, consumed, batch, file_path, attempt,
               sleep_for, exc, result, cont>>
ghostVars == <<log, pauses, hits429>>
clientVars == <<cpc, cjob, cret, snap>>
cliVars == <<cli_pc, cli_files, cli_batch_size, cli_batches, cli_index,
             cli_results, cli_log>>
vars == <<confVars, mgrVars, fieldVars, lock, pc, localVars, ghostVars,
          clientVars, cliVars>>

Jobs == 1..NumJobs
Clients == 1..NumClients

NoThread == <<"none", 0>>
Worker(j) == <<"worker", j>>
Client(c) == <<"client", c>>


\* ------------------------------------------------ values of the program
\* Python's None where a job, an exception or a result is expected
None == [type |-> "None", status |-> 0, name |-> 0, n |-> 0]
NoResult == [name |-> 0, cid |-> "none"]

\* What one requests.post() yields: a response with a status code (and, for
\* 2xx, the content identifier of its JSON body), or a raised
\* RequestException / OSError (err).
StatusCodes == {200, 404, 429, 503}
Response(err, code, cid) == [err |-> err, status |-> code, cid |-> cid]
Responses(cids) ==
    {Response(FALSE, s, "none") : s \in StatusCodes \ {200}}
        \cup {Response(FALSE, 200, c) : c \in cids}
        \cup {Response(TRUE, 0, "none")}

\* Exceptions: type, the status code of an HTTPError's response, the file
\* name and either the attempt count of the message (RuntimeError) or the
\* attempt index at which the exception was raised (the others).
Exception(type, code, name, n) ==
    [type |-> type, status |-> code, name |-> name, n |-> n]

\* Events of one upload_file call: a request with its outcome, a call of
\* on_rate_limit, or a sleep of d with the outcome it follows; k is the
\* attempt number counted from 1.
Event(e, k, resp, d) ==
    [e |-> e, k |-> k, err |-> resp.err, status |-> resp.status,
     cid |-> resp.cid, d |-> d]

Last(s) == s[Len(s)]

RECURSIVE Pow2(_)
Pow2(n) == IF n <= 0 THEN 1 ELSE 2 * Pow2(n - 1)

\* ------------------------------------------------ PinataUploader.upload_file
SleepFor429(base_backoff, a) == base_backoff * Pow2(a)

\* the exponential curve used for server errors too
SleepFor5xx_Exponential(base_backoff, a) == base_backoff * Pow2(a)

SleepFor5xx(base_backoff, a) == base_backoff * (a + 1)

SleepForError(base_backoff, a) == base_backoff * Pow2(a)

\* the last attempt compared with max_retries instead of max_retries - 1
IsLastAttempt_OffByOne(a, max_retries) == a = max_retries

IsLastAttempt(a, max_retries) == a = max_retries - 1

\* range(max_retries + 1)
InRange_Inclusive(a, max_retries) == a <= max_retries

\* a loop body that runs once before the bound is tested
InRange_AtLeastOnce(a, max_retries) ==
    a < (IF max_retries < 1 THEN 1 ELSE max_retries)

InRange(a, max_retries) == a < max_retries

\* response.raise_for_status(): HTTPError for 4xx and 5xx
RaisesForStatus(code) == code >= 400 /\ code < 600

\* except (requests.RequestException, OSError): HTTPError and
\* ConnectionError are RequestExceptions
CaughtByUpload(type) == type \in {"HTTPError", "ConnectionError", "OSError"}

ExceptionOf(resp, name, a) ==
    IF resp.err THEN Exception("ConnectionError", 0, name, a)
    ELSE Exception("HTTPError", resp.status, name, a)

\* the content identifier read under a key the payload does not have
MakeResult_WrongKey(name, resp) == [name |-> name, cid |-> "none"]

MakeResult(name, resp) == [name |-> name, cid |-> resp.cid]

\* upload_file called without on_rate_limit
PassesCallback_None == FALSE

\* run passes on_rate_limit=self._increment_rate_limit (line 168)
PassesCallback == TRUE

\* upload_file raising the HTTPError of a last 429 response when it gives up
RetryExhausted_Http429(name, max_retries) ==
    Exception("HTTPError", 429, name, max_retries)

RetryExhausted(name, max_retries) ==
    Exception("RuntimeError", 0, name, max_retries)

\* ------------------------------------------------ UploadJob helpers
CeilDiv(a, b) ==
    IF b > 0 THEN (a + b - 1) \div b ELSE 0 - (a \div (0 - b))

Max(a, b) == IF a >= b THEN a ELSE b

\* the number of batches rounded down
TotalBatches_Floor(n, bs) == IF bs # 0 THEN Max(1, n \div bs) ELSE 1

TotalBatches(n, bs) == IF bs # 0 THEN Max(1, CeilDiv(n, bs)) ELSE 1

\* _batched: the next list the generator yields once `done` items are consumed
RECURSIVE Batched(_, _, _, _)
Batched(fs, done, acc, bs) ==
    IF done >= Len(fs) THEN acc
    ELSE LET acc2 == Append(acc, fs[done + 1])
         IN  IF Len(acc2) = bs THEN acc2
             ELSE Batched(fs, done + 1, acc2, bs)

\* each batch handed over back to front
NextBatch_Reversed(fs, done, bs) ==
    LET b == Batched(fs, done, <<>>, bs)
    IN  [i \in 1..Len(b) |-> b[Len(b) + 1 - i]]

\* a non-positive size taken as batches of one file
NextBatch_OneByOne(fs, done, bs) ==
    Batched(fs, done, <<>>, IF bs <= 0 THEN 1 ELSE bs)

NextBatch(fs, done, bs) == Batched(fs, done, <<>>, bs)

\* one error tolerated
FinalStatus_OffByOne(errs) ==
    IF Len(errs) > 1 THEN "completed_with_errors" ELSE "completed"

FinalStatus(errs) == IF errs # <<>> THEN "completed_with_errors" ELSE "completed"

IsHTTPError(e) == e.type = "HTTPError"

\* except requests.RequestException instead of except Exception
IsException_RequestsOnly(e) == e.type \in {"HTTPError", "ConnectionError"}

IsException(e) ==
    e.type \in {"HTTPError", "ConnectionError", "OSError", "RuntimeError"}

ErrorEntry(name, e) == [name |-> name, error |-> e]

\* ------------------------------------------------ UploadJob.run (worker)
\* line 160: with self._lock
RunAcquire(j) ==
    /\ pc[j] = "run"
    /\ lock[j] = NoThread
    /\ lock' = [lock EXCEPT ![j] = Worker(j)]
    /\ pc' = [pc EXCEPT ![j] = "run_locked"]
    /\ UNCHANGED <<cliVars, confVars, mgrVars, fieldVars, localVars, ghostVars, clientVars>>

\* lines 161-163: status = "running", release, total_batches
RunSetRunning(j) ==
    /\ pc[j] = "run_locked"
    /\ status' = [status EXCEPT ![j] = "running"]
    /\ lock' = [lock EXCEPT ![j] = NoThread]
    /\ total_batches' = [total_batches EXCEPT
                            ![j] = TotalBatches(total[j], batch_size[j])]
    /\ pc' = [pc EXCEPT ![j] = "next_batch"]
    /\ UNCHANGED <<cliVars, confVars, mgrVars, uploaded, total, results, errors,
                   rate_limit_hits, files, batch_size, batch_index, consumed,
                   batch, file_path, attempt, sleep_for, exc, result, cont,
                   ghostVars, clientVars>>

\* line 165: the for loop asks the generator for the next batch, or ends
RunNextBatch(j) ==
    /\ pc[j] = "next_batch"
    /\ LET b == NextBatch(files[j], consumed[j], batch_size[j])
       IN  IF b = <<>>
           THEN /\ pc' = [pc EXCEPT ![j] = "finish"]
                /\ UNCHANGED <<batch, consumed, batch_index>>
           ELSE /\ pc' = [pc EXCEPT ![j] = "next_file"]
                /\ batch' = [batch EXCEPT ![j] = b]
                /\ consumed' = [consumed EXCEPT ![j] = @ + Len(b)]
                /\ batch_index' = [batch_index EXCEPT ![j] = @ + 1]
    /\ UNCHANGED <<cliVars, confVars, mgrVars, fieldVars, lock, total_batches, file_path,
                   attempt, sleep_for, exc, result, cont, ghostVars, clientVars>>

\* the terminal status set at the end of every batch instead of after the loop
RunNextFile_StatusPerBatch(j) ==
    /\ pc[j] = "next_file"
    /\ IF batch[j] # <<>>
       THEN /\ file_path' = [file_path EXCEPT ![j] = Head(batch[j])]
            /\ batch' = [batch EXCEPT ![j] = Tail(batch[j])]
            /\ attempt' = [attempt EXCEPT ![j] = 0]
            /\ log' = [log EXCEPT ![j] = <<>>]
            /\ pc' = [pc EXCEPT ![j] = "uf_loop"]
            /\ UNCHANGED status
       ELSE /\ pc' = [pc EXCEPT ![j] =
                        IF BATCH_PAUSE > 0 /\ batch_index[j] < total_batches[j]
                        THEN "pause" ELSE "next_batch"]
            /\ status' = [status EXCEPT
                            ![j] = IF errors[j] # <<>> THEN "completed_with_errors"
                                   ELSE "completed"]
            /\ file_path' = [file_path EXCEPT ![j] = 0]
            /\ UNCHANGED <<batch, attempt, log>>
    /\ UNCHANGED <<cliVars, confVars, mgrVars, uploaded, total, results, errors,
                   rate_limit_hits, files, batch_size, lock, total_batches,
                   batch_index, consumed, sleep_for, exc, result, cont, pauses, hits429,
                   clientVars>>

\* lines 166-168 and 177: the next file of the batch enters upload_file; after
\* the last one the worker pauses if another batch is expected
RunNextFile(j) ==
    /\ pc[j] = "next_file"
    /\ IF batch[j] # <<>>
       THEN /\ file_path' = [file_path EXCEPT ![j] = Head(batch[j])]
            /\ batch' = [batch EXCEPT ![j] = Tail(batch[j])]
            /\ attempt' = [attempt EXCEPT ![j] = 0]
            /\ log' = [log EXCEPT ![j] = <<>>]
            /\ pc' = [pc EXCEPT ![j] = "uf_loop"]
       ELSE /\ pc' = [pc EXCEPT ![j] =
                        IF BATCH_PAUSE > 0 /\ batch_index[j] < total_batches[j]
                        THEN "pause" ELSE "next_batch"]
            /\ file_path' = [file_path EXCEPT ![j] = 0]
            /\ UNCHANGED <<batch, attempt, log>>
    /\ UNCHANGED <<cliVars, confVars, mgrVars, fieldVars, lock, total_batches, batch_index,
                   consumed, sleep_for, exc, result, cont, pauses, hits429, clientVars>>

\* line 178: time.sleep(BATCH_PAUSE)
RunPause(j) ==
    /\ pc[j] = "pause"
    /\ pauses' = [pauses EXCEPT ![j] = @ + 1]
    /\ pc' = [pc EXCEPT ![j] = "next_batch"]
    /\ UNCHANGED <<cliVars, confVars, mgrVars, fieldVars, lock, localVars, log, hits429,
                   clientVars>>

\* lines 66-104: one iteration of the retry loop, the request and what the
\* code does with its outcome up to the next blocking call
UfAttempt(j, resp) ==
    /\ pc[j] = "uf_loop"
    /\ InRange(attempt[j], MAX_RETRIES)
    /\ LET a == attempt[j]
           e == ExceptionOf(resp, file_path[j], a)
           \* lines 100-104: the except clause of the loop body
           Handler ==
               IF ~CaughtByUpload(e.type) \/ IsLastAttempt(a, MAX_RETRIES)
               THEN /\ exc' = [exc EXCEPT ![j] = e]
                    /\ pc' = [pc EXCEPT ![j] = "except"]
                    /\ UNCHANGED <<sleep_for, result, cont>>
               ELSE /\ sleep_for' = [sleep_for EXCEPT
                                        ![j] = SleepForError(BASE_BACKOFF, a)]
                    /\ pc' = [pc EXCEPT ![j] = "uf_sleep"]
                    /\ UNCHANGED <<exc, result, cont>>
       IN  /\ log' = [log EXCEPT ![j] = Append(@, Event("request", a + 1, resp, 0))]
           /\ IF resp.err
              THEN Handler
              ELSE IF resp.status = 429
              THEN \* lines 80-83
                   /\ sleep_for' = [sleep_for EXCEPT
                                       ![j] = SleepFor429(BASE_BACKOFF, a)]
                   /\ cont' = [cont EXCEPT ![j] = "uf_sleep"]
                   /\ pc' = [pc EXCEPT ![j] =
                               IF PassesCallback THEN "rate_limit" ELSE "uf_sleep"]
                   /\ UNCHANGED <<exc, result>>
              ELSE IF resp.status >= 500
              THEN \* lines 87-88
                   /\ sleep_for' = [sleep_for EXCEPT
                                       ![j] = SleepFor5xx(BASE_BACKOFF, a)]
                   /\ pc' = [pc EXCEPT ![j] = "uf_sleep"]
                   /\ UNCHANGED <<exc, result, cont>>
              ELSE IF RaisesForStatus(resp.status)
              THEN \* line 92 raises inside the try block
                   Handler
              ELSE \* lines 93-99
                   /\ result' = [result EXCEPT
                                    ![j] = MakeResult(file_path[j], resp)]
                   /\ pc' = [pc EXCEPT ![j] = "record_result"]
                   /\ UNCHANGED <<exc, sleep_for, cont>>
    /\ hits429' = [hits429 EXCEPT
                      ![j] = IF ~resp.err /\ resp.status = 429 THEN @ + 1 ELSE @]
    /\ UNCHANGED <<cliVars, confVars, mgrVars, fieldVars, lock, total_batches, batch_index,
                   consumed, batch, file_path, attempt, pauses, clientVars>>

\* lines 84, 89, 104: time.sleep(sleep_for), then the next iteration
UfSleep(j) ==
    /\ pc[j] = "uf_sleep"
    /\ log' = [log EXCEPT ![j] =
                 Append(@, [Last(log[j]) EXCEPT !.e = "sleep", !.d = sleep_for[j]])]
    /\ attempt' = [attempt EXCEPT ![j] = @ + 1]
    /\ pc' = [pc EXCEPT ![j] = "uf_loop"]
    /\ UNCHANGED <<cliVars, confVars, mgrVars, fieldVars, lock, total_batches, batch_index,
                   consumed, batch, file_path, sleep_for, exc, result, cont,
                   pauses, hits429, clientVars>>

\* line 106: the loop ran out
UfExhausted(j) ==
    /\ pc[j] = "uf_loop"
    /\ ~InRange(attempt[j], MAX_RETRIES)
    /\ exc' = [exc EXCEPT ![j] = RetryExhausted(file_path[j], MAX_RETRIES)]
    /\ pc' = [pc EXCEPT ![j] = "except"]
    /\ UNCHANGED <<cliVars, confVars, mgrVars, fieldVars, lock, total_batches, batch_index,
                   consumed, batch, file_path, attempt, sleep_for, result, cont,
                   ghostVars, clientVars>>

\* lines 145-146: _increment_rate_limit, called as on_rate_limit (line 82)
\* or from run (line 172): with self._lock
RateLimitAcquire(j) ==
    /\ pc[j] = "rate_limit"
    /\ lock[j] = NoThread
    /\ lock' = [lock EXCEPT ![j] = Worker(j)]
    /\ pc' = [pc EXCEPT ![j] = "rate_limit_locked"]
    /\ UNCHANGED <<cliVars, confVars, mgrVars, fieldVars, localVars, ghostVars, clientVars>>

\* the counter's lock kept through the backoff sleep that follows
RateLimitIncrement_KeepsLock(j) ==
    /\ pc[j] = "rate_limit_locked"
    /\ rate_limit_hits' = [rate_limit_hits EXCEPT ![j] = @ + 1]
    /\ log' = [log EXCEPT ![j] =
                 IF cont[j] = "uf_sleep"
                 THEN Append(@, [Last(log[j]) EXCEPT !.e = "callback"])
                 ELSE @]
    /\ pc' = [pc EXCEPT ![j] = cont[j]]
    /\ UNCHANGED <<cliVars, confVars, mgrVars, status, uploaded, total, results, errors,
                   files, batch_size, lock, localVars, pauses, hits429,
                   clientVars>>

\* line 147: rate_limit_hits += 1, release, return to the caller
RateLimitIncrement(j) ==
    /\ pc[j] = "rate_limit_locked"
    /\ rate_limit_hits' = [rate_limit_hits EXCEPT ![j] = @ + 1]
    /\ lock' = [lock EXCEPT ![j] = NoThread]
    /\ log' = [log EXCEPT ![j] =
                 IF cont[j] = "uf_sleep"
                 THEN Append(@, [Last(log[j]) EXCEPT !.e = "callback"])
                 ELSE @]
    /\ pc' = [pc EXCEPT ![j] = cont[j]]
    /\ UNCHANGED <<cliVars, confVars, mgrVars, status, uploaded, total, results, errors,
                   files, batch_size, localVars, pauses, hits429, clientVars>>

\* lines 170-175: the except clauses of run
RunExcept(j) ==
    /\ pc[j] = "except"
    /\ IF IsHTTPError(exc[j])
       THEN IF exc[j].status = 429
            THEN /\ cont' = [cont EXCEPT ![j] = "record_error"]
                 /\ pc' = [pc EXCEPT ![j] = "rate_limit"]
            ELSE /\ pc' = [pc EXCEPT ![j] = "record_error"]
                 /\ UNCHANGED cont
       ELSE IF IsException(exc[j])
       THEN /\ pc' = [pc EXCEPT ![j] = "record_error"]
            /\ UNCHANGED cont
       ELSE /\ pc' = [pc EXCEPT ![j] = "crashed"]
            /\ UNCHANGED cont
    /\ UNCHANGED <<cliVars, confVars, mgrVars, fieldVars, lock, total_batches, batch_index,
                   consumed, batch, file_path, attempt, sleep_for, exc, result,
                   ghostVars, clientVars>>

\* The iteration of line 166 is over: the locals of the finished upload_file
\* call and of the try statement are dead, and the events of the call are
\* dropped with them.
EndOfIteration(j) ==
    /\ attempt' = [attempt EXCEPT ![j] = 0]
    /\ sleep_for' = [sleep_for EXCEPT ![j] = 0]
    /\ exc' = [exc EXCEPT ![j] = None]
    /\ result' = [result EXCEPT ![j] = NoResult]
    /\ cont' = [cont EXCEPT ![j] = "none"]
    /\ log' = [log EXCEPT ![j] = <<>>]

\* the result dropped and the next file started without recording it
RecordResultAcquire_Skipped(j) ==
    /\ pc[j] = "record_result"
    /\ pc' = [pc EXCEPT ![j] = "next_file"]
    /\ EndOfIteration(j)
    /\ UNCHANGED <<cliVars, confVars, mgrVars, fieldVars, lock, total_batches, batch_index,
                   consumed, batch, file_path, pauses, hits429, clientVars>>

\* line 136: _record_result, with self._lock
RecordResultAcquire(j) ==
    /\ pc[j] = "record_result"
    /\ lock[j] = NoThread
    /\ lock' = [lock EXCEPT ![j] = Worker(j)]
    /\ pc' = [pc EXCEPT ![j] = "record_result_append"]
    /\ UNCHANGED <<cliVars, confVars, mgrVars, fieldVars, localVars, ghostVars, clientVars>>

\* line 137: self.results.append(result)
RecordResultAppend(j) ==
    /\ pc[j] = "record_result_append"
    /\ results' = [results EXCEPT ![j] = Append(@, result[j])]
    /\ pc' = [pc EXCEPT ![j] = "record_result_count"]
    /\ UNCHANGED <<cliVars, confVars, mgrVars, status, uploaded, total, errors,
                   rate_limit_hits, files, batch_size, lock, localVars,
                   ghostVars, clientVars>>

\* line 138: self.uploaded += 1, release
RecordResultCount(j) ==
    /\ pc[j] = "record_result_count"
    /\ uploaded' = [uploaded EXCEPT ![j] = @ + 1]
    /\ lock' = [lock EXCEPT ![j] = NoThread]
    /\ pc' = [pc EXCEPT ![j] = "next_file"]
    /\ EndOfIteration(j)
    /\ UNCHANGED <<cliVars, confVars, mgrVars, status, total, results, errors,
                   rate_limit_hits, files, batch_size, total_batches,
                   batch_index, consumed, batch, file_path, pauses, hits429, clientVars>>

\* line 141: _record_error, with self._lock
RecordErrorAcquire(j) ==
    /\ pc[j] = "record_error"
    /\ lock[j] = NoThread
    /\ lock' = [lock EXCEPT ![j] = Worker(j)]
    /\ pc' = [pc EXCEPT ![j] = "record_error_append"]
    /\ UNCHANGED <<cliVars, confVars, mgrVars, fieldVars, localVars, ghostVars, clientVars>>

\* line 142: self.errors.append({"name": ..., "error": str(exc)})
RecordErrorAppend(j) ==
    /\ pc[j] = "record_error_append"
    /\ errors' = [errors EXCEPT ![j] = Append(@, ErrorEntry(file_path[j], exc[j]))]
    /\ pc' = [pc EXCEPT ![j] = "record_error_count"]
    /\ UNCHANGED <<cliVars, confVars, mgrVars, status, uploaded, total, results,
                   rate_limit_hits, files, batch_size, lock, localVars,
                   ghostVars, clientVars>>

\* a failed file taken out of the count instead of counted
RecordErrorCount_Decrement(j) ==
    /\ pc[j] = "record_error_count"
    /\ uploaded' = [uploaded EXCEPT ![j] = @ - 1]
    /\ lock' = [lock EXCEPT ![j] = NoThread]
    /\ pc' = [pc EXCEPT ![j] = "next_file"]
    /\ EndOfIteration(j)
    /\ UNCHANGED <<cliVars, confVars, mgrVars, status, total, results, errors,
                   rate_limit_hits, files, batch_size, total_batches,
                   batch_index, consumed, batch, file_path, pauses, hits429, clientVars>>

\* the job's lock kept after an error is recorded
RecordErrorCount_KeepsLock(j) ==
    /\ pc[j] = "record_error_count"
    /\ uploaded' = [uploaded EXCEPT ![j] = @ + 1]
    /\ pc' = [pc EXCEPT ![j] = "next_file"]
    /\ EndOfIteration(j)
    /\ UNCHANGED <<cliVars, confVars, mgrVars, status, total, results, errors,
                   rate_limit_hits, files, batch_size, lock, total_batches,
                   batch_index, consumed, batch, file_path, pauses, hits429,
                   clientVars>>

\* line 143: self.uploaded += 1, release
RecordErrorCount(j) ==
    /\ pc[j] = "record_error_count"
    /\ uploaded' = [uploaded EXCEPT ![j] = @ + 1]
    /\ lock' = [lock EXCEPT ![j] = NoThread]
    /\ pc' = [pc EXCEPT ![j] = "next_file"]
    /\ EndOfIteration(j)
    /\ UNCHANGED <<cliVars, confVars, mgrVars, status, total, results, errors,
                   rate_limit_hits, files, batch_size, total_batches,
                   batch_index, consumed, batch, file_path, pauses, hits429, clientVars>>

\* line 180: with self._lock
FinishAcquire(j) ==
    /\ pc[j] = "finish"
    /\ lock[j] = NoThread
    /\ lock' = [lock EXCEPT ![j] = Worker(j)]
    /\ pc' = [pc EXCEPT ![j] = "finish_locked"]
    /\ UNCHANGED <<cliVars, confVars, mgrVars, fieldVars, localVars, ghostVars, clientVars>>

\* line 181: the terminal status, release; the thread ends
FinishSetStatus(j) ==
    /\ pc[j] = "finish_locked"
    /\ status' = [status EXCEPT ![j] = FinalStatus(errors[j])]
    /\ lock' = [lock EXCEPT ![j] = NoThread]
    /\ pc' = [pc EXCEPT ![j] = "done"]
    /\ UNCHANGED <<cliVars, confVars, mgrVars, uploaded, total, results, errors,
                   rate_limit_hits, files, batch_size, localVars, ghostVars,
                   clientVars>>

\* ------------------------------------------------ request handlers
NoSnapshot ==
    [id |-> 0, status |-> "none", uploaded |-> 0, total |-> 0,
     rate_limit_hits |-> 0, results |-> <<>>, errors |-> <<>>]

NoReturn == [op |-> "none", id |-> 0, job |-> 0, ok |-> FALSE]

\* to_dict, lines 125-133: the fields copied into a new dict
Snapshot(j) ==
    [id |-> j, status |-> status[j], uploaded |-> uploaded[j], total |-> total[j],
     rate_limit_hits |-> rate_limit_hits[j], results |-> results[j],
     errors |-> errors[j]]

\* ------------------------------------------------ PinataUploader.__init__
\* A credential as main() reads it: absent (None), the empty string, or set
CredentialValues == {"None", "", "set"}

\* Python truthiness of a str-or-None value
Truthy(x) == x \notin {"None", ""}

Accepts_KeyOrSecret(jwt, api_key, api_secret) ==
    ~(~Truthy(jwt) /\ ~(Truthy(api_key) \/ Truthy(api_secret)))

\* __init__ lines 39-40: the negation of the condition that raises ValueError
Accepts(jwt, api_key, api_secret) ==
    ~(~Truthy(jwt) /\ ~(Truthy(api_key) /\ Truthy(api_secret)))

\* main() lines 282-284: the three credentials before the uploader is made
Credentials(jwt, api_key, api_secret) ==
    [state |-> "new", jwt |-> jwt, api_key |-> api_key,
     api_secret |-> api_secret]

\* _headers lines 47-53: the authentication headers of every request
Headers(u) ==
    IF Truthy(u.jwt)
    THEN [Authorization |-> "Bearer"]
    ELSE [pinata_api_key |-> IF Truthy(u.api_key) THEN u.api_key ELSE "",
          pinata_secret_api_key |->
              IF Truthy(u.api_secret) THEN u.api_secret ELSE ""]

\* main() lines 286-289: PinataUploader(...) either stores the credentials
\* or raises ValueError, which main turns into SystemExit before create_app
NewUploader ==
    /\ uploader.state = "new"
    /\ uploader' = [uploader EXCEPT !.state =
           IF Accepts(uploader.jwt, uploader.api_key, uploader.api_secret)
           THEN "ok" ELSE "ValueError"]
    /\ UNCHANGED <<cliVars, MAX_RETRIES, BASE_BACKOFF, BATCH_PAUSE, mgrVars, fieldVars,
                   lock, pc, localVars, ghostVars, clientVars>>

\* upload_x402 line 246, UploadJob.__init__: a new job of n files named 1..n;
\* its id is fresh (uuid4), here the number of its slot
Construct(c, j, n, bs) ==
    /\ uploader.state = "ok"
    /\ cpc[c] = "idle"
    /\ status[j] = "none"
    /\ status' = [status EXCEPT ![j] = "queued"]
    /\ uploaded' = [uploaded EXCEPT ![j] = 0]
    /\ total' = [total EXCEPT ![j] = n]
    /\ results' = [results EXCEPT ![j] = <<>>]
    /\ errors' = [errors EXCEPT ![j] = <<>>]
    /\ rate_limit_hits' = [rate_limit_hits EXCEPT ![j] = 0]
    /\ files' = [files EXCEPT ![j] = [i \in 1..n |-> i]]
    /\ batch_size' = [batch_size EXCEPT ![j] = bs]
    /\ cjob' = [cjob EXCEPT ![c] = j]
    /\ cpc' = [cpc EXCEPT ![c] = "add"]
    /\ UNCHANGED <<cliVars, confVars, mgrVars, lock, pc, localVars, ghostVars, cret, snap>>

\* JobManager.add line 190: with self._lock
AddAcquire(c) ==
    /\ cpc[c] = "add"
    /\ mgr_lock = NoThread
    /\ mgr_lock' = Client(c)
    /\ cpc' = [cpc EXCEPT ![c] = "add_locked"]
    /\ UNCHANGED <<cliVars, confVars, jobs, fieldVars, lock, pc, localVars, ghostVars,
                   cjob, cret, snap>>

\* self.jobs = {job.id: job}: the registry replaced by one holding the new job
AddInsert_Overwrite(c) ==
    /\ cpc[c] = "add_locked"
    /\ jobs' = [id \in Jobs |-> IF id = cjob[c] THEN cjob[c] ELSE 0]
    /\ mgr_lock' = NoThread
    /\ cpc' = [cpc EXCEPT ![c] = "add_start"]
    /\ UNCHANGED <<cliVars, confVars, fieldVars, lock, pc, localVars, ghostVars,
                   cjob, cret, snap>>

\* the insertion left out: the worker is started on an unregistered job
AddInsert_Skipped(c) ==
    /\ cpc[c] = "add_locked"
    /\ mgr_lock' = NoThread
    /\ cpc' = [cpc EXCEPT ![c] = "add_start"]
    /\ UNCHANGED <<cliVars, confVars, jobs, fieldVars, lock, pc, localVars, ghostVars,
                   cjob, cret, snap>>

\* line 191: self.jobs[job.id] = job, release
AddInsert(c) ==
    /\ cpc[c] = "add_locked"
    /\ jobs' = [jobs EXCEPT ![cjob[c]] = cjob[c]]
    /\ mgr_lock' = NoThread
    /\ cpc' = [cpc EXCEPT ![c] = "add_start"]
    /\ UNCHANGED <<cliVars, confVars, fieldVars, lock, pc, localVars, ghostVars,
                   cjob, cret, snap>>

\* lines 192-193: the worker thread of the job starts
AddStart(c) ==
    /\ cpc[c] = "add_start"
    /\ pc' = [pc EXCEPT ![cjob[c]] = "run"]
    /\ cpc' = [cpc EXCEPT ![c] = "add_return"]
    /\ UNCHANGED <<cliVars, confVars, mgrVars, fieldVars, lock, localVars, ghostVars,
                   cjob, cret, snap>>

\* line 194: return job
AddReturn(c) ==
    /\ cpc[c] = "add_return"
    /\ cret' = [cret EXCEPT ![c] =
                  [op |-> "add", id |-> cjob[c], job |-> cjob[c], ok |-> TRUE]]
    /\ cpc' = [cpc EXCEPT ![c] = "idle"]
    /\ UNCHANGED <<cliVars, confVars, mgrVars, fieldVars, lock, pc, localVars, ghostVars,
                   cjob, snap>>

\* job_status line 252, JobManager.get line 197: with self._lock
GetAcquire(c, id) ==
    /\ cpc[c] = "idle"
    /\ mgr_lock = NoThread
    /\ mgr_lock' = Client(c)
    /\ cjob' = [cjob EXCEPT ![c] = id]
    /\ cpc' = [cpc EXCEPT ![c] = "get_locked"]
    /\ UNCHANGED <<cliVars, confVars, jobs, fieldVars, lock, pc, localVars, ghostVars,
                   cret, snap>>

\* job_status taking the snapshot inside the manager's lock
GetReturn_KeepsLock(c) ==
    /\ cpc[c] = "get_locked"
    /\ cret' = [cret EXCEPT ![c] =
                  [op |-> "get", id |-> cjob[c], job |-> jobs[cjob[c]],
                   ok |-> jobs[cjob[c]] # 0]]
    /\ cjob' = [cjob EXCEPT ![c] = jobs[cjob[c]]]
    /\ mgr_lock' = IF jobs[cjob[c]] # 0 THEN mgr_lock ELSE NoThread
    /\ cpc' = [cpc EXCEPT ![c] = IF jobs[cjob[c]] # 0 THEN "to_dict" ELSE "idle"]
    /\ UNCHANGED <<cliVars, confVars, jobs, fieldVars, lock, pc, localVars, ghostVars, snap>>

\* line 198 and job_status lines 253-255: the job or None; None ends the
\* handler (404), a job goes on to to_dict
GetReturn(c) ==
    /\ cpc[c] = "get_locked"
    /\ mgr_lock' = NoThread
    /\ cret' = [cret EXCEPT ![c] =
                  [op |-> "get", id |-> cjob[c], job |-> jobs[cjob[c]],
                   ok |-> jobs[cjob[c]] # 0]]
    /\ cjob' = [cjob EXCEPT ![c] = jobs[cjob[c]]]
    /\ cpc' = [cpc EXCEPT ![c] = IF jobs[cjob[c]] # 0 THEN "to_dict" ELSE "idle"]
    /\ UNCHANGED <<cliVars, confVars, jobs, fieldVars, lock, pc, localVars, ghostVars, snap>>

\* to_dict reading the fields without taking the job's lock
ToDictAcquire_NoLock(c) ==
    /\ cpc[c] = "to_dict"
    /\ cpc' = [cpc EXCEPT ![c] = "to_dict_locked"]
    /\ UNCHANGED <<cliVars, confVars, mgrVars, fieldVars, lock, pc, localVars, ghostVars,
                   cjob, cret, snap>>

\* to_dict line 124: with self._lock
ToDictAcquire(c) ==
    /\ cpc[c] = "to_dict"
    /\ lock[cjob[c]] = NoThread
    /\ lock' = [lock EXCEPT ![cjob[c]] = Client(c)]
    /\ cpc' = [cpc EXCEPT ![c] = "to_dict_locked"]
    /\ UNCHANGED <<cliVars, confVars, mgrVars, fieldVars, pc, localVars, ghostVars,
                   cjob, cret, snap>>

\* a snapshot that reads the rate-limit counter and clears it
ToDictReturn_ReadAndClear(c) ==
    /\ cpc[c] = "to_dict_locked"
    /\ snap' = [snap EXCEPT ![c] = Snapshot(cjob[c])]
    /\ rate_limit_hits' = [rate_limit_hits EXCEPT ![cjob[c]] = 0]
    /\ lock' = [lock EXCEPT ![cjob[c]] = NoThread]
    /\ cpc' = [cpc EXCEPT ![c] = "idle"]
    /\ UNCHANGED <<cliVars, confVars, mgrVars, status, uploaded, total, results, errors,
                   files, batch_size, pc, localVars, ghostVars, cjob, cret>>

\* lines 125-133: the snapshot, release
ToDictReturn(c) ==
    /\ cpc[c] = "to_dict_locked"
    /\ snap' = [snap EXCEPT ![c] = Snapshot(cjob[c])]
    /\ lock' = [lock EXCEPT ![cjob[c]] = NoThread]
    /\ cpc' = [cpc EXCEPT ![c] = "idle"]
    /\ UNCHANGED <<cliVars, confVars, mgrVars, fieldVars, pc, localVars, ghostVars,
                   cjob, cret>>

\* ------------------------------------------------ callers of to_dict
\* What a caller may do to the dict to_dict returned. `list(self.results)`
\* (line 130) is a new list of the same entry dicts: the list is the
\* caller's own, each entry is the object the job's list holds. An entry is
\* identified by its file name, which is unique within a job and which no
\* step writes.
SetCid(s, name, v) ==
    [i \in 1..Len(s) |->
        IF s[i].name = name THEN [s[i] EXCEPT !.cid = v] ELSE s[i]]

\* snapshot["results"].pop(): the caller's list loses its last entry
MutateSnapshotList(c) ==
    /\ cpc[c] = "idle"
    /\ snap[c].id # 0
    /\ snap[c].results # <<>>
    /\ snap' = [snap EXCEPT ![c].results = SubSeq(@, 1, Len(@) - 1)]
    /\ UNCHANGED <<cliVars, confVars, mgrVars, fieldVars, lock, pc, localVars, ghostVars,
                   cpc, cjob, cret>>

\* snapshot["results"][i]["cid"] = "mutated": the entry is written, and with
\* it every list that holds the same entry: the job's and the other
\* snapshots' of the job
MutateSnapshotEntry(c, i) ==
    /\ cpc[c] = "idle"
    /\ snap[c].id # 0
    /\ i \in 1..Len(snap[c].results)
    /\ snap[c].results[i].cid # "mutated"
    /\ LET j == snap[c].id
           name == snap[c].results[i].name
       IN  /\ results' = [results EXCEPT ![j] = SetCid(@, name, "mutated")]
           /\ snap' = [d \in Clients |->
                         IF snap[d].id = j
                         THEN [snap[d] EXCEPT
                                 !.results = SetCid(@, name, "mutated")]
                         ELSE snap[d]]
    /\ UNCHANGED <<cliVars, confVars, mgrVars, status, uploaded, total, errors,
                   rate_limit_hits, files, batch_size, lock, pc, localVars,
                   ghostVars, cpc, cjob, cret>>

\* job_remove line 259, JobManager.remove line 201: with self._lock
RemoveAcquire(c, id) ==
    /\ cpc[c] = "idle"
    /\ mgr_lock = NoThread
    /\ mgr_lock' = Client(c)
    /\ cjob' = [cjob EXCEPT ![c] = id]
    /\ cpc' = [cpc EXCEPT ![c] = "remove_locked"]
    /\ UNCHANGED <<cliVars, confVars, jobs, fieldVars, lock, pc, localVars, ghostVars,
                   cret, snap>>

\* del self.jobs[job_id]: an unknown id raises KeyError out of the handler
RemoveReturn_Del(c) ==
    /\ cpc[c] = "remove_locked"
    /\ jobs' = [jobs EXCEPT ![cjob[c]] = 0]
    /\ mgr_lock' = NoThread
    /\ cret' = [cret EXCEPT ![c] =
                  [op |-> "remove", id |-> cjob[c], job |-> jobs[cjob[c]],
                   ok |-> jobs[cjob[c]] # 0]]
    /\ cpc' = [cpc EXCEPT ![c] = IF jobs[cjob[c]] # 0 THEN "idle" ELSE "KeyError"]
    /\ UNCHANGED <<cliVars, confVars, fieldVars, lock, pc, localVars, ghostVars, cjob, snap>>

\* self.jobs.clear(): the removal empties the registry
RemoveReturn_Clear(c) ==
    /\ cpc[c] = "remove_locked"
    /\ jobs' = [id \in Jobs |-> 0]
    /\ mgr_lock' = NoThread
    /\ cret' = [cret EXCEPT ![c] =
                  [op |-> "remove", id |-> cjob[c], job |-> jobs[cjob[c]],
                   ok |-> jobs[cjob[c]] # 0]]
    /\ cpc' = [cpc EXCEPT ![c] = "idle"]
    /\ UNCHANGED <<cliVars, confVars, fieldVars, lock, pc, localVars, ghostVars, cjob, snap>>

\* a removal that cancels the worker of the removed job
RemoveReturn_Cancel(c) ==
    /\ cpc[c] = "remove_locked"
    /\ jobs' = [jobs EXCEPT ![cjob[c]] = 0]
    /\ mgr_lock' = NoThread
    /\ cret' = [cret EXCEPT ![c] =
                  [op |-> "remove", id |-> cjob[c], job |-> jobs[cjob[c]],
                   ok |-> jobs[cjob[c]] # 0]]
    /\ cpc' = [cpc EXCEPT ![c] = "idle"]
    /\ pc' = [j \in Jobs |->
                IF j = jobs[cjob[c]] /\ lock[j] # Worker(j) /\ pc[j] # "done"
                THEN "cancelled" ELSE pc[j]]
    /\ UNCHANGED <<cliVars, confVars, fieldVars, lock, localVars, ghostVars, cjob, snap>>

\* line 202: self.jobs.pop(job_id, None) is not None, release
RemoveReturn(c) ==
    /\ cpc[c] = "remove_locked"
    /\ jobs' = [jobs EXCEPT ![cjob[c]] = 0]
    /\ mgr_lock' = NoThread
    /\ cret' = [cret EXCEPT ![c] =
                  [op |-> "remove", id |-> cjob[c], job |-> jobs[cjob[c]],
                   ok |-> jobs[cjob[c]] # 0]]
    /\ cpc' = [cpc EXCEPT ![c] = "idle"]
    /\ UNCHANGED <<cliVars, confVars, fieldVars, lock, pc, localVars, ghostVars, cjob, snap>>

\* ------------------------------------------------ _upload_batch
\* pinata_batch_upload.py lines 96-97, 101-102 and 118-119: the sleeps
BatchSleepFor429(backoff, a) == backoff * Pow2(a)

\* the rate-limit curve used for server errors too
BatchSleepFor5xx_Exponential(backoff, a) == backoff * Pow2(a)

BatchSleepFor5xx(backoff, a) == backoff * (a + 1)

BatchSleepForError(backoff, a) == backoff * Pow2(a)

\* what a call has done so far: requests sent, sleeps slept, the local
\* rate_limit_hits, and how it ended ("pending" while it has not)
BatchStart ==
    [requests |-> 0, sleeps |-> <<>>, rate_limit_hits |-> 0,
     outcome |-> "pending", cid |-> "none"]

\* lines 73-121: the loop `for attempt in range(max_retries)` from attempt a
\* on, the i-th request answered by outs[i]
RECURSIVE BatchLoop(_, _, _, _, _)
BatchLoop(outs, a, max_retries, backoff, acc) ==
    IF ~(a < max_retries)
    THEN \* line 121
         [acc EXCEPT !.outcome = "RuntimeError"]
    ELSE IF a + 1 > Len(outs)
    THEN acc
    ELSE LET resp == outs[a + 1]
             sent == [acc EXCEPT !.requests = @ + 1]
             \* lines 115-119: the except clause
             Handler(type) ==
                 IF a = max_retries - 1
                 THEN [sent EXCEPT !.outcome = type]
                 ELSE BatchLoop(outs, a + 1, max_retries, backoff,
                          [sent EXCEPT !.sleeps =
                              Append(@, BatchSleepForError(backoff, a))])
         IN  IF resp.err
             THEN Handler("ConnectionError")
             ELSE IF resp.status = 429
             THEN \* lines 94-98
                  BatchLoop(outs, a + 1, max_retries, backoff,
                      [sent EXCEPT
                          !.rate_limit_hits = @ + 1,
                          !.sleeps = Append(@, BatchSleepFor429(backoff, a))])
             ELSE IF resp.status >= 500
             THEN \* lines 100-103
                  BatchLoop(outs, a + 1, max_retries, backoff,
                      [sent EXCEPT
                          !.sleeps = Append(@, BatchSleepFor5xx(backoff, a))])
             ELSE IF RaisesForStatus(resp.status)
             THEN \* line 105 raises inside the try block
                  Handler("HTTPError")
             ELSE \* lines 106-114
                  [sent EXCEPT !.outcome = "returned", !.cid = resp.cid]

\* _upload_batch called with the responses outs
UploadBatch(outs, max_retries, backoff) ==
    BatchLoop(outs, 0, max_retries, backoff, BatchStart)

\* ------------------------------------------------ pinata_batch_upload.main
\* _chunked, lines 39-45: the whole list as one chunk for size <= 0, else
\* consecutive slices of `size` items, the last one possibly shorter
Chunked(items, size) ==
    IF size <= 0 THEN <<items>>
    ELSE [k \in 1..CeilDiv(Len(items), size) |->
             SubSeq(items, (k - 1) * size + 1,
                    IF k * size < Len(items) THEN k * size ELSE Len(items))]

\* lines 107-114: the dict _upload_batch returns (pin_size and timestamp,
\* copied from the response like cid, are left out)
BatchResult(index, b, r) ==
    [batch_index |-> index, cid |-> r.cid, files |-> b,
     rate_limit_hits |-> r.rate_limit_hits]

\* line 208: except (requests.RequestException, OSError, RuntimeError)
CaughtByMain(type) ==
    type \in {"HTTPError", "ConnectionError", "OSError", "RuntimeError"}

CallEvent(index, outcome) == [e |-> "call", index |-> index, outcome |-> outcome]

PauseEvent(index) == [e |-> "sleep", index |-> index, outcome |-> "none"]

\* lines 154-192: the arguments are read, the directory holds n >= 1 files
\* (_iter_directory_files raises otherwise), a dry run prints the batches
\* and returns, the uploader is made, the batches are listed
MainStart(n, bs, dry_run) ==
    /\ cli_pc = "idle"
    /\ n >= 1
    /\ dry_run \/ uploader.state = "ok"
    /\ cli_files' = [i \in 1..n |-> i]
    /\ cli_batch_size' = bs
    /\ cli_batches' = Chunked([i \in 1..n |-> i], bs)
    /\ cli_index' = 0
    /\ cli_results' = <<>>
    /\ cli_pc' = IF dry_run THEN "returned" ELSE "loop"
    /\ UNCHANGED <<cli_log, confVars, mgrVars, fieldVars, lock, pc, localVars,
                   ghostVars, clientVars>>

\* a failed batch skipped and the loop carried on (continue for break)
MainUploadBatch_Continue(outs) ==
    /\ cli_pc = "loop"
    /\ cli_index < Len(cli_batches)
    /\ LET index == cli_index + 1
           r == UploadBatch(outs, MAX_RETRIES, BASE_BACKOFF)
       IN  /\ cli_index' = index
           /\ cli_log' = Append(cli_log, CallEvent(index, r.outcome))
           /\ IF r.outcome = "returned"
              THEN /\ cli_results' = Append(cli_results,
                                        BatchResult(index, cli_batches[index], r))
                   /\ cli_pc' = IF BATCH_PAUSE > 0 /\ index < Len(cli_batches)
                                THEN "pause" ELSE "loop"
              ELSE /\ cli_pc' = IF CaughtByMain(r.outcome) THEN "loop"
                                ELSE "crashed"
                   /\ UNCHANGED cli_results
    /\ UNCHANGED <<cli_files, cli_batch_size, cli_batches, confVars, mgrVars,
                   fieldVars, lock, pc, localVars, ghostVars, clientVars>>

\* lines 194-212: one iteration of the loop up to its pause: _upload_batch
\* with the responses outs; its result is appended, or its exception is
\* reported and ends the loop
MainUploadBatch(outs) ==
    /\ cli_pc = "loop"
    /\ cli_index < Len(cli_batches)
    /\ LET index == cli_index + 1
           r == UploadBatch(outs, MAX_RETRIES, BASE_BACKOFF)
       IN  /\ cli_index' = index
           /\ cli_log' = Append(cli_log, CallEvent(index, r.outcome))
           /\ IF r.outcome = "returned"
              THEN /\ cli_results' = Append(cli_results,
                                        BatchResult(index, cli_batches[index], r))
                   /\ cli_pc' = IF BATCH_PAUSE > 0 /\ index < Len(cli_batches)
                                THEN "pause" ELSE "loop"
              ELSE /\ cli_pc' = IF CaughtByMain(r.outcome) THEN "break"
                                ELSE "crashed"
                   /\ UNCHANGED cli_results
    /\ UNCHANGED <<cli_files, cli_batch_size, cli_batches, confVars, mgrVars,
                   fieldVars, lock, pc, localVars, ghostVars, clientVars>>

\* line 213: time.sleep(args.pause)
MainPause ==
    /\ cli_pc = "pause"
    /\ cli_log' = Append(cli_log, PauseEvent(cli_index))
    /\ cli_pc' = "loop"
    /\ UNCHANGED <<cli_files, cli_batch_size, cli_batches, cli_index,
                   cli_results, confVars, mgrVars, fieldVars, lock, pc,
                   localVars, ghostVars, clientVars>>

\* lines 215-218, after the loop ended or was left: the results are printed,
\* or SystemExit is raised when there is none
MainFinish ==
    /\ \/ cli_pc = "break"
       \/ cli_pc = "loop" /\ ~(cli_index < Len(cli_batches))
    /\ cli_pc' = IF cli_results # <<>> THEN "printed" ELSE "SystemExit"
    /\ UNCHANGED <<cli_files, cli_batch_size, cli_batches, cli_index,
                   cli_results, cli_log, confVars, mgrVars, fieldVars, lock, pc,
                   localVars, ghostVars, clientVars>>

\* ------------------------------------------------ specifications
\* The state after import: the configuration is read, the registry is empty,
\* no job exists and no thread runs.
InitBase(retries, backoffs, pauseSet) ==
    /\ MAX_RETRIES \in retries
    /\ BASE_BACKOFF \in backoffs
    /\ BATCH_PAUSE \in pauseSet
    /\ jobs = [id \in Jobs |-> 0]
    /\ mgr_lock = NoThread
    /\ status = [j \in Jobs |-> "none"]
    /\ uploaded = [j \in Jobs |-> 0]
    /\ total = [j \in Jobs |-> 0]
    /\ results = [j \in Jobs |-> <<>>]
    /\ errors = [j \in Jobs |-> <<>>]
    /\ rate_limit_hits = [j \in Jobs |-> 0]
    /\ files = [j \in Jobs |-> <<>>]
    /\ batch_size = [j \in Jobs |-> 0]
    /\ lock = [j \in Jobs |-> NoThread]
    /\ pc = [j \in Jobs |-> "idle"]
    /\ total_batches = [j \in Jobs |-> 0]
    /\ batch_index = [j \in Jobs |-> 0]
    /\ consumed = [j \in Jobs |-> 0]
    /\ batch = [j \in Jobs |-> <<>>]
    /\ file_path = [j \in Jobs |-> 0]
    /\ attempt = [j \in Jobs |-> 0]
    /\ sleep_for = [j \in Jobs |-> 0]
    /\ exc = [j \in Jobs |-> None]
    /\ result = [j \in Jobs |-> NoResult]
    /\ cont = [j \in Jobs |-> "none"]
    /\ log = [j \in Jobs |-> <<>>]
    /\ pauses = [j \in Jobs |-> 0]
    /\ hits429 = [j \in Jobs |-> 0]
    /\ cpc = [c \in Clients |-> "idle"]
    /\ cjob = [c \in Clients |-> 0]
    /\ cret = [c \in Clients |-> NoReturn]
    /\ snap = [c \in Clients |-> NoSnapshot]
    /\ cli_pc = "idle"
    /\ cli_files = <<>>
    /\ cli_batch_size = 0
    /\ cli_batches = <<>>
    /\ cli_index = 0
    /\ cli_results = <<>>
    /\ cli_log = <<>>

\* The state after create_app: the uploader was made from a bearer token
InitWith(retries, backoffs, pauseSet) ==
    /\ InitBase(retries, backoffs, pauseSet)
    /\ uploader = [Credentials("set", "None", "None") EXCEPT !.state = "ok"]

\* The steps of the worker of job j, with the responses the environment may give
WorkerStep(j, resps) ==
    \/ RunAcquire(j)
    \/ RunSetRunning(j)
    \/ RunNextBatch(j)
    \/ RunNextFile(j)
    \/ RunPause(j)
    \/ \E resp \in resps : UfAttempt(j, resp)
    \/ UfSleep(j)
    \/ UfExhausted(j)
    \/ RateLimitAcquire(j)
    \/ RateLimitIncrement(j)
    \/ RunExcept(j)
    \/ RecordResultAcquire(j)
    \/ RecordResultAppend(j)
    \/ RecordResultCount(j)
    \/ RecordErrorAcquire(j)
    \/ RecordErrorAppend(j)
    \/ RecordErrorCount(j)
    \/ FinishAcquire(j)
    \/ FinishSetStatus(j)

\* upload_file in isolation: one handler creates one job of one or two
\* one-file batches and nothing else is asked of the service; every retry
\* count and base backoff up to the bounds.
InitUpload == InitWith(0..MaxRetriesBound, 1..MaxBackoff, {1})

NextUpload ==
    \/ \E n \in 1..2 : Construct(1, 1, n, 1)
    \/ AddAcquire(1)
    \/ AddInsert(1)
    \/ AddStart(1)
    \/ AddReturn(1)
    \/ WorkerStep(1, Responses(UploadCids))

SpecUpload == InitUpload /\ [][NextUpload]_vars

\* The same with retry counts that allow no attempt (range(n) is empty for
\* n <= 0), next to the count that allows one.
InitNoRetry == InitWith((0 - 1)..1, {1}, {1})

SpecNoRetry == InitNoRetry /\ [][NextUpload]_vars

\* run() of one job that nobody polls: every file count up to MaxFiles with
\* every batch size from -1, and the longer list of ScenarioFiles files in
\* batches of MaxBatchSize; two attempts per file.
InitRun == InitWith({2}, {1}, {1})

NextRun ==
    \/ \E n \in 0..MaxFiles, bs \in (0 - 1)..MaxBatchSize :
           Construct(1, 1, n, bs)
    \/ Construct(1, 1, ScenarioFiles, MaxBatchSize)
    \/ AddAcquire(1)
    \/ AddInsert(1)
    \/ AddStart(1)
    \/ AddReturn(1)
    \/ WorkerStep(1, Responses({"QmA"}))

SpecRun == InitRun /\ [][NextRun]_vars

\* run() of the degenerate jobs: every file count up to MaxFiles, the empty
\* list included, with batch sizes -1 and 0 next to batches of one file.
NextDegenerate ==
    \/ \E n \in 0..MaxFiles, bs \in (0 - 1)..1 : Construct(1, 1, n, bs)
    \/ AddAcquire(1)
    \/ AddInsert(1)
    \/ AddStart(1)
    \/ AddReturn(1)
    \/ WorkerStep(1, Responses({"QmA"}))

SpecDegenerate == InitRun /\ [][NextDegenerate]_vars

\* The batch command line alone: up to MaxFiles + 1 files, batch sizes from
\* -1, with and without --dry-run and --pause; --max-retries from -1 to 2,
\* every response to each of the up to two requests of a batch.
InitCli == InitWith((0 - 1)..2, {1}, 0..1)

NextCli ==
    \/ \E n \in 1..(MaxFiles + 1), bs \in (0 - 1)..MaxBatchSize,
          dry_run \in BOOLEAN : MainStart(n, bs, dry_run)
    \/ \E outs \in [1..2 -> Responses({"QmA"})] : MainUploadBatch(outs)
    \/ MainPause
    \/ MainFinish

SpecCli == InitCli /\ [][NextCli]_vars

\* The service from its start: main() reads any combination of credentials
\* and makes the uploader; when that succeeds a handler creates one job of
\* two one-file batches, each file given a single attempt.
InitAuth ==
    /\ InitBase({1}, {1}, {1})
    /\ \E jwt \in CredentialValues, api_key \in CredentialValues,
          api_secret \in CredentialValues :
           uploader = Credentials(jwt, api_key, api_secret)

NextAuth ==
    \/ NewUploader
    \/ Construct(1, 1, 2, 1)
    \/ AddAcquire(1)
    \/ AddInsert(1)
    \/ AddStart(1)
    \/ AddReturn(1)
    \/ WorkerStep(1, Responses({"QmA"}))

SpecAuth == InitAuth /\ [][NextAuth]_vars

\* One job of two one-file batches, two attempts per file, polled by two
\* handlers whose callers keep the snapshots and write to them.
InitAlias == InitWith({2}, {1}, {1})

NextAlias ==
    \/ Construct(1, 1, 2, 1)
    \/ AddAcquire(1)
    \/ AddInsert(1)
    \/ AddStart(1)
    \/ AddReturn(1)
    \/ \E c \in 1..2 :
           \/ GetAcquire(c, 1)
           \/ GetReturn(c)
           \/ ToDictAcquire(c)
           \/ ToDictReturn(c)
           \/ MutateSnapshotList(c)
           \/ \E i \in 1..2 : MutateSnapshotEntry(c, i)
    \/ WorkerStep(1, Responses({"QmA"}))

SpecAlias == InitAlias /\ [][NextAlias]_vars

\* The steps of the worker of job j that can happen when every file is
\* given a single attempt whose response is a success or a client error
SingleAttemptStep(j) ==
    \/ RunAcquire(j)
    \/ RunSetRunning(j)
    \/ RunNextBatch(j)
    \/ RunNextFile(j)
    \/ RunPause(j)
    \/ UfAttempt(j, Response(FALSE, 200, "QmA"))
    \/ UfAttempt(j, Response(FALSE, 404, "none"))
    \/ RunExcept(j)
    \/ RecordResultAcquire(j)
    \/ RecordResultAppend(j)
    \/ RecordResultCount(j)
    \/ RecordErrorAcquire(j)
    \/ RecordErrorAppend(j)
    \/ RecordErrorCount(j)
    \/ FinishAcquire(j)
    \/ FinishSetStatus(j)

\* The registry under concurrent requests: two handlers create and add two
\* jobs, look ids up and remove them, in any interleaving. The workers are
\* started and not yet scheduled: no step of a worker reads or writes the
\* registry or the manager's lock.
InitManager == InitWith({1}, {1}, {1})

NextManager ==
    \/ \E c \in 1..2 :
           \/ \E j \in 1..2 : Construct(c, j, 1, 1)
           \/ AddAcquire(c)
           \/ AddInsert(c)
           \/ AddStart(c)
           \/ AddReturn(c)
           \/ \E id \in 1..2 : GetAcquire(c, id)
           \/ GetReturn(c)
           \/ ToDictAcquire(c)
           \/ ToDictReturn(c)
           \/ \E id \in 1..2 : RemoveAcquire(c, id)
           \/ RemoveReturn(c)

SpecManager == InitManager /\ [][NextManager]_vars

\* Removal during the run: one handler creates and adds a job of two
\* one-file batches, another removes it from the registry and looks it up
\* at any moment of the worker's run.
InitRemove == InitWith({1}, {1}, {1})

NextRemove ==
    \/ Construct(1, 1, 2, 1)
    \/ AddAcquire(1)
    \/ AddInsert(1)
    \/ AddStart(1)
    \/ AddReturn(1)
    \/ RemoveAcquire(2, 1)
    \/ RemoveReturn(2)
    \/ GetAcquire(2, 1)
    \/ GetReturn(2)
    \/ ToDictAcquire(2)
    \/ ToDictReturn(2)
    \/ SingleAttemptStep(1)

SpecRemove == InitRemove /\ [][NextRemove]_vars

\* Every place where a lock is taken: one handler creates and adds a job of
\* two one-file batches, another polls it and removes it, and the worker
\* meets every outcome, two attempts per file.
InitLocks == InitWith({2}, {1}, {1})

NextLocks ==
    \/ Construct(1, 1, 2, 1)
    \/ AddAcquire(1)
    \/ AddInsert(1)
    \/ AddStart(1)
    \/ AddReturn(1)
    \/ GetAcquire(2, 1)
    \/ GetReturn(2)
    \/ ToDictAcquire(2)
    \/ ToDictReturn(2)
    \/ RemoveAcquire(2, 1)
    \/ RemoveReturn(2)
    \/ WorkerStep(1, Responses({"QmA"}))

SpecLocks == InitLocks /\ [][NextLocks]_vars

\* Two jobs at once: one handler creates and adds a job of two one-file
\* batches, whose worker meets every outcome, and a job of one file, whose
\* upload succeeds; another handler polls and removes the first job. One
\* attempt per file.
InitTwoJobs == InitWith({1}, {1}, {1})

NextTwoJobs ==
    \/ Construct(1, 1, 2, 1)
    \/ Construct(1, 2, 1, 1)
    \/ AddAcquire(1)
    \/ AddInsert(1)
    \/ AddStart(1)
    \/ AddReturn(1)
    \/ GetAcquire(2, 1)
    \/ GetReturn(2)
    \/ ToDictAcquire(2)
    \/ ToDictReturn(2)
    \/ RemoveAcquire(2, 1)
    \/ RemoveReturn(2)
    \/ WorkerStep(1, Responses({"QmA"}))
    \/ WorkerStep(2, {Response(FALSE, 200, "QmA")})

SpecTwoJobs == InitTwoJobs /\ [][NextTwoJobs]_vars

\* The same under fair scheduling: every HTTP call and every sleep of the
\* worker returns and the worker gets a lock that is free again and again
\* (strong fairness of its steps); add, once called, gets the manager's lock
\* likewise; a handler inside a `with` block leaves it (weak fairness).
FairLocks ==
    /\ SF_vars(WorkerStep(1, Responses({"QmA"})))
    /\ SF_vars(AddAcquire(1) \/ AddInsert(1) \/ AddStart(1))
    /\ WF_vars(GetReturn(2))
    /\ WF_vars(ToDictReturn(2))
    /\ WF_vars(RemoveReturn(2))

SpecLocksFair == InitLocks /\ [][NextLocks]_vars /\ FairLocks

\* One job observed while it runs: a handler creates it, then handlers poll
\* it (job_status: get, to_dict) while its worker uploads; two attempts per
\* file, so that every kind of outcome of a file occurs.
Init == InitWith({2}, {1}, {1})

Next ==
    \/ \E n \in 0..MaxFiles, bs \in 1..MaxBatchSize : Construct(1, 1, n, bs)
    \/ AddAcquire(1)
    \/ AddInsert(1)
    \/ AddStart(1)
    \/ AddReturn(1)
    \/ GetAcquire(1, 1)
    \/ GetReturn(1)
    \/ ToDictAcquire(1)
    \/ ToDictReturn(1)
    \/ WorkerStep(1, Responses({"QmA"}))

Spec == Init /\ [][Next]_vars

\* ------------------------------------------------ vocabulary of the claims
Terminal == {"completed", "completed_with_errors"}

\* the worker of j is inside upload_file
InCall(j) ==
    \/ pc[j] \in {"uf_loop", "uf_sleep"}
    \/ pc[j] \in {"rate_limit", "rate_limit_locked"} /\ cont[j] = "uf_sleep"

\* upload_file has returned a result that run is recording
Returned(j) ==
    pc[j] \in {"record_result", "record_result_append", "record_result_count"}

\* upload_file has raised an exception that run is handling
Raised(j) ==
    \/ pc[j] \in {"except", "record_error", "record_error_append",
                  "record_error_count"}
    \/ pc[j] \in {"rate_limit", "rate_limit_locked"} /\ cont[j] = "record_error"

IsRequest(e) == e.e = "request"
IsCallback(e) == e.e = "callback"
IsSleep(e) == e.e = "sleep"
Is429(e) == ~e.err /\ e.status = 429
Is5xx(e) == ~e.err /\ e.status >= 500
Is2xx(e) == ~e.err /\ e.status >= 200 /\ e.status < 300
IsClientError(e) == ~e.err /\ e.status >= 400 /\ e.status < 500 /\ e.status # 429
Is429Request(e) == IsRequest(e) /\ Is429(e)

Requests(l) == SelectSeq(l, IsRequest)
Callbacks(l) == SelectSeq(l, IsCallback)
Sleeps(l) == SelectSeq(l, IsSleep)
Statuses(l) == [i \in 1..Len(l) |-> l[i].status]

EntriesOf(s, f) == {i \in 1..Len(s) : s[i].name = f}

\* ------------------------------------------------ claims

\* C1: every snapshot that to_dict() has returned, also one taken while run()
\* is in flight, has uploaded = len(results) + len(errors).
C1_SnapshotCountsAgree ==
    \A c \in Clients :
        snap[c].uploaded = Len(snap[c].results) + Len(snap[c].errors)

\* C1 witness: a handler holds a snapshot of the running job with one error
\* counted, and waits for the job's lock to take the next one while the
\* worker, inside _record_result, has appended but not yet counted.
C1_Witness ==
    \E c \in Clients :
        /\ snap[c].status = "running"
        /\ snap[c].uploaded = 1
        /\ Len(snap[c].errors) = 1
        /\ cpc[c] = "to_dict"
        /\ pc[cjob[c]] = "record_result_count"
        /\ uploaded[cjob[c]] # Len(results[cjob[c]]) + Len(errors[cjob[c]])

\* C2: the worker never dies of a file's failure, and once the status is
\* terminal uploaded = total and every file has exactly one entry, in results
\* or in errors.
C2_EveryFileProcessed ==
    \A j \in Jobs :
        /\ pc[j] # "crashed"
        /\ status[j] \in Terminal =>
              /\ uploaded[j] = total[j]
              /\ Len(results[j]) + Len(errors[j]) = total[j]
              /\ \A f \in 1..total[j] :
                    Cardinality(EntriesOf(results[j], f))
                        + Cardinality(EntriesOf(errors[j], f)) = 1

\* C2 witness: five files, the third exhausts its retries: 4 results, 1 error,
\* uploaded = 5, completed_with_errors.
C2_Witness ==
    \E j \in Jobs :
        /\ status[j] = "completed_with_errors"
        /\ total[j] = 5
        /\ uploaded[j] = 5
        /\ Len(results[j]) = 4
        /\ Len(errors[j]) = 1
        /\ errors[j][1].name = 3
        /\ errors[j][1].error.type = "RuntimeError"

\* C3: a step changes a job's status only from queued to running or from
\* running to a terminal status (a new job is born queued), and leaves
\* status, results and errors of a job with a terminal status alone.
C3_StatusForwardOnly ==
    [][\A j \in Jobs :
          /\ status'[j] # status[j] =>
                \/ status[j] = "none" /\ status'[j] = "queued"
                \/ status[j] = "queued" /\ status'[j] = "running"
                \/ status[j] = "running" /\ status'[j] \in Terminal
          /\ status[j] \in Terminal =>
                /\ status'[j] = status[j]
                /\ results'[j] = results[j]
                /\ errors'[j] = errors[j]]_vars

\* C3 witness: a job of several batches has gone through running to a
\* terminal status while the handler that added it has a step left.
C3_Witness ==
    \E j \in Jobs :
        /\ status[j] \in Terminal
        /\ pc[j] = "done"
        /\ batch_index[j] >= 2
        /\ \E c \in Clients : cpc[c] = "add_return"

\* C4: when run() has finished the status is completed exactly if errors is
\* empty and completed_with_errors exactly if it is not.
C4_TerminalStatusByErrors ==
    \A j \in Jobs :
        pc[j] = "done" =>
            /\ status[j] \in Terminal
            /\ status[j] = "completed" <=> errors[j] = <<>>
            /\ status[j] = "completed_with_errors" <=> Len(errors[j]) >= 1

\* C4 witness: a finished job with results and exactly one error.
C4_Witness ==
    \E j \in Jobs :
        /\ pc[j] = "done"
        /\ status[j] = "completed_with_errors"
        /\ Len(errors[j]) = 1
        /\ Len(results[j]) >= 1

\* C5: a 4xx response other than 429 is the last event of its upload_file
\* call, which has failed: no sleep and no further request follow it.
C5_ClientErrorFailsAtOnce ==
    \A j \in Jobs :
        \A i \in 1..Len(log[j]) :
            IsRequest(log[j][i]) /\ IsClientError(log[j][i]) =>
                /\ i = Len(log[j])
                /\ Raised(j)

\* C6: in an upload_file call every 429 response is followed by exactly one
\* call of on_rate_limit, which follows nothing else, then by the sleep and,
\* while attempts remain, by the next request; a call that returns after the
\* responses 429, 429, 2xx returns on its 3rd attempt with 2 callbacks made.
C6_RateLimitCallbackAndRetry ==
    \A j \in Jobs :
        LET l == log[j]
            pending == InCall(j) /\ pc[j] \in {"rate_limit", "rate_limit_locked"}
        IN  /\ \A i \in 1..Len(l) :
                  Is429Request(l[i]) =>
                      /\ i = Len(l) => pending
                      /\ i < Len(l) => IsCallback(l[i + 1])
                      /\ i + 1 < Len(l) => IsSleep(l[i + 2])
                      /\ l[i].k < MAX_RETRIES =>
                            /\ InCall(j)
                                   \/ (i + 2 < Len(l) /\ IsRequest(l[i + 3])
                                          /\ l[i + 3].k = l[i].k + 1)
                            /\ i + 2 = Len(l) =>
                                  /\ pc[j] = "uf_loop"
                                  /\ attempt[j] = l[i].k
            /\ \A i \in 1..Len(l) :
                  IsCallback(l[i]) => i > 1 /\ Is429Request(l[i - 1])
            /\ Len(Callbacks(l)) + (IF pending THEN 1 ELSE 0)
                   = Len(SelectSeq(l, Is429Request))
            /\ Returned(j) /\ Statuses(Requests(l)) = <<429, 429, 200>> =>
                  /\ Len(Callbacks(l)) = 2
                  /\ Last(l).k = 3
                  /\ result[j].name = file_path[j]

\* C6 witness: with three attempts allowed, a call has returned after 429,
\* 429, 2xx.
C6_Witness ==
    \E j \in Jobs :
        /\ MAX_RETRIES = 3
        /\ Returned(j)
        /\ Statuses(Requests(log[j])) = <<429, 429, 200>>
        /\ Len(Callbacks(log[j])) = 2

\* C7: the sleep that follows attempt k lasts BASE_BACKOFF * 2^(k-1) after a
\* 429 response and BASE_BACKOFF * k after a 5xx response.
C7_BackoffCurves ==
    \A j \in Jobs :
        \A i \in 1..Len(log[j]) :
            LET e == log[j][i]
            IN  IsSleep(e) =>
                    /\ Is429(e) => e.d = BASE_BACKOFF * 2 ^ (e.k - 1)
                    /\ Is5xx(e) => e.d = BASE_BACKOFF * e.k

\* C7 witness: one call has slept after a 5xx on attempt 2 and after a 429 on
\* attempt 3, where the curves differ.
C7_Witness ==
    \E j \in Jobs :
        \E i, m \in 1..Len(log[j]) :
            /\ BASE_BACKOFF = 2
            /\ IsSleep(log[j][i]) /\ Is5xx(log[j][i])
            /\ log[j][i].k = 2 /\ log[j][i].d = 4
            /\ IsSleep(log[j][m]) /\ Is429(log[j][m])
            /\ log[j][m].k = 3 /\ log[j][m].d = 8

\* C8: an upload_file call never sends more than MAX_RETRIES requests, and
\* one that is over with nothing but 429 and 5xx responses has sent exactly
\* MAX_RETRIES and raised the error naming the file and MAX_RETRIES.
C8_RetriesExhausted ==
    \A j \in Jobs :
        LET reqs == Requests(log[j])
            allRetryable == \A i \in 1..Len(reqs) : Is429(reqs[i]) \/ Is5xx(reqs[i])
        IN  /\ Len(reqs) <= MAX_RETRIES
            /\ (Returned(j) \/ Raised(j)) /\ allRetryable =>
                  /\ Len(reqs) = MAX_RETRIES
                  /\ Raised(j)
                  /\ exc[j] = [type |-> "RuntimeError", status |-> 0,
                               name |-> file_path[j], n |-> MAX_RETRIES]
            /\ Len(reqs) = MAX_RETRIES /\ allRetryable /\ pc[j] = "uf_loop" =>
                  ~ENABLED (\E resp \in Responses(UploadCids) : UfAttempt(j, resp))

\* C8 witness: three attempts, answered 429, 503, 429, and the call has
\* raised the retry-exhausted error.
C8_Witness ==
    \E j \in Jobs :
        /\ MAX_RETRIES = 3
        /\ pc[j] = "except"
        /\ Statuses(Requests(log[j])) = <<429, 503, 429>>
        /\ exc[j].type = "RuntimeError"

\* C9: a network/IO failure on attempt k < MAX_RETRIES is followed by a sleep
\* of BASE_BACKOFF * 2^(k-1) and then by the next attempt; on attempt
\* MAX_RETRIES it is the last event of the call, which raises that error.
C9_NetworkFailure ==
    \A j \in Jobs :
        LET l == log[j]
        IN  \A i \in 1..Len(l) :
                IsRequest(l[i]) /\ l[i].err =>
                    IF l[i].k < MAX_RETRIES
                    THEN /\ i = Len(l) =>
                               /\ pc[j] = "uf_sleep"
                               /\ sleep_for[j] = BASE_BACKOFF * 2 ^ (l[i].k - 1)
                         /\ i < Len(l) =>
                               /\ IsSleep(l[i + 1])
                               /\ l[i + 1].d = BASE_BACKOFF * 2 ^ (l[i].k - 1)
                         /\ i + 1 = Len(l) =>
                               /\ pc[j] = "uf_loop"
                               /\ attempt[j] = l[i].k
                         /\ i + 1 < Len(l) =>
                               /\ IsRequest(l[i + 2])
                               /\ l[i + 2].k = l[i].k + 1
                    ELSE /\ i = Len(l)
                         /\ Raised(j)
                         /\ exc[j] = [type |-> "ConnectionError", status |-> 0,
                                      name |-> file_path[j], n |-> l[i].k - 1]

\* C9 witness: three attempts, all network failures: two sleeps, of
\* BASE_BACKOFF and twice that, and the third failure raised.
C9_Witness ==
    \E j \in Jobs :
        /\ MAX_RETRIES = 3
        /\ BASE_BACKOFF = 2
        /\ pc[j] = "except"
        /\ Len(log[j]) = 5
        /\ \A i \in 1..5 : log[j][i].err
        /\ log[j][2].d = 2
        /\ log[j][4].d = 4
        /\ exc[j].type = "ConnectionError"

\* C10: a 2xx response is the last event of its upload_file call, which has
\* returned the result made of the file's name and the response's content
\* identifier; and a call only returns after a 2xx response.
C10_SuccessEndsLoop ==
    \A j \in Jobs :
        LET l == log[j]
        IN  /\ \A i \in 1..Len(l) :
                  IsRequest(l[i]) /\ Is2xx(l[i]) =>
                      /\ i = Len(l)
                      /\ Returned(j)
                      /\ result[j] = [name |-> file_path[j], cid |-> l[i].cid]
            /\ Returned(j) => l # <<>> /\ IsRequest(Last(l)) /\ Is2xx(Last(l))

\* C10 witness: with three attempts allowed, a call has returned on the
\* second, after a 503.
C10_Witness ==
    \E j \in Jobs :
        /\ MAX_RETRIES = 3
        /\ pc[j] = "record_result"
        /\ Statuses(Requests(log[j])) = <<503, 200>>
        /\ result[j].cid = "QmB"

\* ------------------------------------------------ C11
BearerConfigured == Truthy(uploader.jwt)
KeyPairConfigured == Truthy(uploader.api_key) /\ Truthy(uploader.api_secret)

\* C11 as stated: construction succeeds only when exactly one authentication
\* mode is configured; with none, with a key without its secret, or with
\* both modes at once it fails.
C11_ExactlyOneMode ==
    uploader.state # "new" =>
        (uploader.state = "ok" <=> (BearerConfigured # KeyPairConfigured))

\* C11 amended: construction succeeds exactly when at least one
\* authentication mode is configured (a bearer token, or an API key with
\* its secret), and with both the bearer token is the one sent; otherwise it
\* fails with the configuration error, and no job exists and no request is
\* sent unless it succeeded.
C11_AtLeastOneMode ==
    /\ uploader.state # "new" =>
           (uploader.state = "ok" <=> (BearerConfigured \/ KeyPairConfigured))
    /\ uploader.state = "ok" /\ BearerConfigured =>
           Headers(uploader) = [Authorization |-> "Bearer"]
    /\ uploader.state = "ok" /\ ~BearerConfigured =>
           Headers(uploader) = [pinata_api_key |-> uploader.api_key,
                                pinata_secret_api_key |-> uploader.api_secret]
    /\ \A j \in Jobs :
           status[j] # "none" \/ log[j] # <<>> => uploader.state = "ok"

\* both modes configured, the uploader made, and a request sent with it
C11_Witness ==
    /\ uploader.state = "ok"
    /\ BearerConfigured /\ KeyPairConfigured
    /\ \E i \in 1..Len(log[1]) : IsRequest(log[1][i])

\* ------------------------------------------------ C12
Min(a, b) == IF a <= b THEN a ELSE b

\* the worker of job j is inside the loop of run() or past it
InRunLoop(j) == pc[j] \notin {"idle", "run", "run_locked", "crashed"}

\* C12: a job of total >= 1 files and positive batch_size is processed in
\* ceil(total / batch_size) batches: the batches are consecutive slices of
\* the file list in its order, every batch before the current one held
\* exactly batch_size files and the current one holds batch_size files or
\* the remainder; one pause follows each batch but the last, so that after
\* the loop there were ceil(total / batch_size) batches and one pause fewer.
C12_BatchesAndPauses ==
    \A j \in Jobs :
        InRunLoop(j) /\ batch_size[j] > 0 /\ total[j] >= 1 =>
            LET bs == batch_size[j]
                nb == CeilDiv(total[j], bs)
                k == batch_index[j]
            IN  /\ k <= nb
                /\ consumed[j] = Min(k * bs, total[j])
                /\ Len(batch[j]) <= bs
                /\ batch[j] = SubSeq(files[j], consumed[j] - Len(batch[j]) + 1,
                                     consumed[j])
                /\ pauses[j] = IF pc[j] = "next_batch" /\ 1 <= k /\ k < nb
                               THEN k ELSE Max(0, k - 1)
                /\ pc[j] = "pause" => k < nb /\ batch[j] = <<>>
                /\ pc[j] \in {"finish", "finish_locked", "done"} =>
                      k = nb /\ pauses[j] = nb - 1

\* C12 witness: the long list in batches of MaxBatchSize is done: the last
\* batch was the remainder and there was one pause fewer than batches
C12_Witness ==
    /\ pc[1] = "done"
    /\ total[1] = ScenarioFiles
    /\ batch_size[1] = MaxBatchSize
    /\ batch_index[1] = CeilDiv(ScenarioFiles, MaxBatchSize)
    /\ pauses[1] = batch_index[1] - 1
    /\ pauses[1] >= 2

\* ------------------------------------------------ C13
\* the position of file name f in the file list of job j
PositionOf(j, f) == CHOOSE i \in 1..Len(files[j]) : files[j][i] = f

\* the entries of s name files of job j in the order of its file list
InListOrder(j, s) ==
    \A a \in 1..Len(s), b \in 1..Len(s) :
        a < b => PositionOf(j, s[a].name) < PositionOf(j, s[b].name)

\* the file names of the entries of s
NamesOf(s) == {s[i].name : i \in 1..Len(s)}

C14_UploadedMonotoneTotalFixed ==
    [][\A j \in Jobs :
          /\ uploaded'[j] >= uploaded[j]
          /\ status[j] # "none" =>
                /\ total'[j] = total[j]
                /\ files'[j] = files[j]
                /\ total[j] = Len(files[j])]_vars

\* C14 witness: the counter has grown to 3 of 5 with both kinds of outcome
\* and the next file is being uploaded
C14_Witness ==
    /\ total[1] = ScenarioFiles
    /\ uploaded[1] = 3
    /\ Len(errors[1]) = 2
    /\ pc[1] = "uf_loop"

\* ------------------------------------------------ C15
\* the fields of job j that to_dict reads
FieldsOf(j) ==
    <<status[j], uploaded[j], total[j], rate_limit_hits[j], results[j],
      errors[j]>>

\* client c returns from to_dict in this step
ReturnsSnapshot(c) == cpc[c] = "to_dict_locked" /\ cpc'[c] # "to_dict_locked"

\* C15: a to_dict() call returns the values the job's fields have at the
\* call and changes no field of the job and nothing of its worker, and the
\* fields a snapshot reads change only in steps of the job's worker (or at
\* construction); so two calls with no worker step between them return
\* identical data.
C15_SnapshotIdempotent ==
    [][/\ \A c \in Clients :
             ReturnsSnapshot(c) =>
                 /\ snap'[c] = Snapshot(cjob[c])
                 /\ snap'[c] = [id |-> cjob[c],
                                status |-> status'[cjob[c]],
                                uploaded |-> uploaded'[cjob[c]],
                                total |-> total'[cjob[c]],
                                rate_limit_hits |-> rate_limit_hits'[cjob[c]],
                                results |-> results'[cjob[c]],
                                errors |-> errors'[cjob[c]]]
                 /\ fieldVars' = fieldVars
                 /\ <<pc, localVars, ghostVars, mgrVars>>'
                       = <<pc, localVars, ghostVars, mgrVars>>
       /\ \A j \in Jobs :
             FieldsOf(j)' # FieldsOf(j) =>
                 pc'[j] # pc[j] \/ status[j] = "none"]_vars

\* C15 witness: the handler holds a snapshot taken after the first file
\* failed with one rate-limit hit, and is inside a second to_dict call on
\* the job, whose fields are still the same
C15_Witness ==
    /\ cpc[1] = "to_dict_locked"
    /\ snap[1] = Snapshot(1)
    /\ snap[1].uploaded = 1
    /\ snap[1].rate_limit_hits = 1
    /\ Len(snap[1].errors) = 1

\* ------------------------------------------------ C16
\* C16 as stated: a returned snapshot shares nothing mutable with the job:
\* the fields of a job change only in steps of its worker (or at
\* construction), never by what a caller does to a snapshot, and a snapshot
\* a caller holds changes only by that caller's own doing.
C16_NoSharedReference ==
    [][/\ \A j \in Jobs :
             FieldsOf(j)' # FieldsOf(j) =>
                 pc'[j] # pc[j] \/ status[j] = "none"
       /\ \A c \in Clients :
             snap'[c] # snap[c] =>
                 \/ ReturnsSnapshot(c)
                 \/ MutateSnapshotList(c)
                 \/ \E i \in 1..Len(snap[c].results) :
                        MutateSnapshotEntry(c, i)]_vars

\* ------------------------------------------------ C17
\* client c is inside JobManager.add
InAdd(c) == cpc[c] \in {"add", "add_locked", "add_start", "add_return"}

\* C17: under any interleaving of add calls (and of lookups and removals)
\* the jobs being added have distinct ids, every registry entry maps an id
\* to the job of that id, an entry changes only when that very id is added
\* (to its job) or removed, so no add loses, overwrites or duplicates
\* another job's entry, and get(id) returns what the registry holds for id.
C17_ConcurrentAdds ==
    [][/\ \A c1 \in Clients, c2 \in Clients :
             c1 # c2 /\ InAdd(c1) /\ InAdd(c2) => cjob[c1] # cjob[c2]
       /\ \A id \in Jobs :
             /\ jobs[id] \in {0, id}
             /\ jobs'[id] \in {0, id}
             /\ jobs'[id] # jobs[id] =>
                   \E c \in Clients :
                       /\ cjob[c] = id
                       /\ cpc'[c] # cpc[c]
                       /\ \/ cpc[c] = "add_locked" /\ jobs'[id] = id
                          \/ cpc[c] = "remove_locked" /\ jobs'[id] = 0
       /\ \A c \in Clients :
             /\ cpc[c] = "add_locked" /\ cpc'[c] # cpc[c] =>
                   jobs'[cjob[c]] = cjob[c]
             /\ cpc[c] = "get_locked" /\ cpc'[c] # cpc[c] =>
                   /\ cret'[c].op = "get"
                   /\ cret'[c].job = jobs[cjob[c]]
                   /\ cret'[c].ok <=> jobs[cjob[c]] = cjob[c]]_vars

\* C17 witness: the two handlers are inside add at the same time, each past
\* its insertion, and the registry holds both jobs
C17_Witness ==
    /\ cpc[1] = "add_return"
    /\ cpc[2] = "add_start"
    /\ cjob[1] # cjob[2]
    /\ \A id \in 1..2 : jobs[id] = id

\* ------------------------------------------------ C18
\* client c returns from JobManager.get or JobManager.remove in this step
ReturnsLookup(c) ==
    cpc[c] \in {"get_locked", "remove_locked"} /\ cpc'[c] # cpc[c]

\* C18: get(id) and remove(id) on an id the registry does not hold return
\* the not-found value (None, False) to a handler that goes on normally, and
\* leave the registry as it was.
C18_UnknownIdNotFound ==
    [][\A c \in Clients :
          ReturnsLookup(c) /\ jobs[cjob[c]] = 0 =>
              /\ cret'[c].op = IF cpc[c] = "get_locked" THEN "get" ELSE "remove"
              /\ cret'[c].id = cjob[c]
              /\ cret'[c].job = 0
              /\ cret'[c].ok = FALSE
              /\ cpc'[c] = "idle"
              /\ jobs' = jobs
              /\ mgr_lock' = NoThread]_vars

\* C18 witness: with job 1 registered, one handler's remove(2) and the
\* other's get(2) have both returned not-found
C18_Witness ==
    /\ jobs[1] = 1
    /\ jobs[2] = 0
    /\ status[2] = "none"
    /\ cret[1] = [op |-> "remove", id |-> 2, job |-> 0, ok |-> FALSE]
    /\ cret[2] = [op |-> "get", id |-> 2, job |-> 0, ok |-> FALSE]
    /\ cpc[1] = "idle"
    /\ cpc[2] = "idle"

\* ------------------------------------------------ C19
\* job j was registered and has been removed
Removed(j) ==
    /\ status[j] # "none"
    /\ jobs[j] = 0
    /\ \A c \in Clients : cjob[c] = j => cpc[c] \notin {"add", "add_locked"}

\* C19: remove(id) on a registered job returns True and deletes that entry
\* and no other; a removed job stays removed, so every later get(id) returns
\* None and every later remove(id) returns False.
C19_RemoveDeletesOnlyThatEntry ==
    [][/\ \A c \in Clients :
             cpc[c] = "remove_locked" /\ cpc'[c] # cpc[c]
                 /\ jobs[cjob[c]] # 0 =>
                 /\ cret'[c] = [op |-> "remove", id |-> cjob[c],
                                job |-> cjob[c], ok |-> TRUE]
                 /\ jobs'[cjob[c]] = 0
                 /\ \A id \in Jobs \ {cjob[c]} : jobs'[id] = jobs[id]
       /\ \A j \in Jobs :
             Removed(j) =>
                 /\ Removed(j)'
                 /\ \A c \in Clients :
                       ReturnsLookup(c) /\ cjob[c] = j =>
                           cret'[c].ok = FALSE /\ cret'[c].job = 0]_vars

\* C19 witness: both jobs were registered, remove(1) returned True to one
\* handler and then False to the other, and job 2 is still registered
C19_Witness ==
    /\ cret[1] = [op |-> "remove", id |-> 1, job |-> 1, ok |-> TRUE]
    /\ cret[2] = [op |-> "remove", id |-> 1, job |-> 0, ok |-> FALSE]
    /\ jobs[1] = 0
    /\ jobs[2] = 2

\* ------------------------------------------------ C20
\* C20: a removal changes nothing of the job or of its worker; a removed job
\* whose worker has not finished can always take its next step (or waits
\* for a reader to release the job's lock, or for add to start the thread
\* when the removal came between insertion and start), and when its worker
\* has finished the status is terminal and uploaded = total with one entry
\* per file.
C20_RemovalDoesNotStopWorker ==
    /\ [][\A c \in Clients :
             cpc[c] = "remove_locked" /\ cpc'[c] # cpc[c] =>
                 <<fieldVars, lock, pc, localVars, ghostVars>>'
                     = <<fieldVars, lock, pc, localVars, ghostVars>>]_vars
    /\ [](\A j \in Jobs :
             Removed(j) =>
                 /\ pc[j] \notin {"done", "cancelled", "crashed"} =>
                       \/ ENABLED SingleAttemptStep(j)
                       \/ \E c \in Clients : lock[j] = Client(c)
                       \/ \E c \in Clients :
                              cjob[c] = j /\ ENABLED AddStart(c)
                 /\ pc[j] = "done" =>
                       /\ status[j] \in Terminal
                       /\ uploaded[j] = total[j]
                       /\ Len(results[j]) + Len(errors[j]) = total[j])

\* C20 witness: the job was removed and its worker goes on: one file is
\* recorded and the request for the next one is about to be sent
C20_Witness ==
    /\ Removed(1)
    /\ cret[2] = [op |-> "remove", id |-> 1, job |-> 1, ok |-> TRUE]
    /\ status[1] = "running"
    /\ uploaded[1] = 1
    /\ pc[1] = "uf_loop"

\* ------------------------------------------------ C21
\* C21 as stated: whenever add is about to return, the status of the job it
\* added is queued or running, never terminal.
C21_ReturnsBeforeTerminal ==
    \A c \in Clients :
        cpc[c] = "add_return" => status[cjob[c]] \in {"queued", "running"}

\* C21 amended: the job is registered before its worker is started (a job
\* that is not yet in the registry is queued and its worker has not taken a
\* step), and add returns without waiting for the worker: when it returns
\* the job is registered and its status is queued, running or, when the
\* worker has already finished, terminal with uploaded = total.
C21_RegisteredBeforeStart ==
    /\ \A j \in Jobs :
          jobs[j] = 0 => pc[j] = "idle" /\ status[j] \in {"none", "queued"}
    /\ \A c \in Clients :
          cpc[c] = "add_return" =>
              /\ jobs[cjob[c]] = cjob[c]
              /\ pc[cjob[c]] # "idle"
              /\ status[cjob[c]] \in {"queued", "running"} \cup Terminal
              /\ status[cjob[c]] \in Terminal =>
                    pc[cjob[c]] = "done" /\ uploaded[cjob[c]] = total[cjob[c]]

\* C21 witness: add has not returned yet and the worker has already
\* finished both files
C21_Witness ==
    /\ cpc[1] = "add_return"
    /\ total[1] = 2
    /\ uploaded[1] = 2
    /\ status[1] \in Terminal

\* ------------------------------------------------ C22
\* the worker of job j has received a 429 and has not yet counted it
CountPending(j) ==
    IF pc[j] \in {"rate_limit", "rate_limit_locked"} THEN 1 ELSE 0

\* C22: rate_limit_hits of a job is the number of 429 responses its upload
\* attempts have received, each counted once by the callback that follows
\* it (also a 429 on the last attempt of a file that then fails); the
\* except clause of run never counts one a second time, and nothing else
\* changes the counter.
C22_RateLimitHitsCount429 ==
    \A j \in Jobs :
        /\ rate_limit_hits[j] + CountPending(j) = hits429[j]
        /\ pc[j] \in {"rate_limit", "rate_limit_locked"} =>
              /\ cont[j] = "uf_sleep"
              /\ Is429Request(Last(log[j]))

\* C22 witness: the first file got 429 on both of its two attempts and
\* failed with the retries exhausted; both hits are counted, once each
C22_Witness ==
    /\ MAX_RETRIES = 2
    /\ Len(errors[1]) = 1
    /\ errors[1][1].error.type = "RuntimeError"
    /\ uploaded[1] = 1
    /\ hits429[1] = 2
    /\ rate_limit_hits[1] = 2

\* ------------------------------------------------ C23
\* thread t holds the lock of some job
HoldsJobLock(t) == \E j \in Jobs : lock[j] = t

\* the positions at which a worker waits for its job's lock, and at which it
\* holds it
WorkerWaits == {"run", "rate_limit", "record_result", "record_error", "finish"}
WorkerLocked ==
    {"run_locked", "rate_limit_locked", "record_result_append",
     "record_result_count", "record_error_append", "record_error_count",
     "finish_locked"}

\* the positions at which a handler holds the manager's lock
ManagerLocked == {"add_locked", "get_locked", "remove_locked"}

\* C23: no thread holds the manager's lock and a job's lock together; a
\* thread that is about to take or waits for one of them holds neither; and
\* whoever holds a lock is inside the block that releases it without taking
\* another lock, so no state is a deadlock between the two kinds of lock.
C23_LocksNeverNested ==
    /\ mgr_lock[1] # "worker"
    /\ \A c \in Clients :
          /\ ~(mgr_lock = Client(c) /\ HoldsJobLock(Client(c)))
          /\ cpc[c] \in {"idle", "add", "to_dict"} =>
                mgr_lock # Client(c) /\ ~HoldsJobLock(Client(c))
          /\ mgr_lock = Client(c) <=> cpc[c] \in ManagerLocked
          /\ HoldsJobLock(Client(c)) <=> cpc[c] = "to_dict_locked"
          /\ cpc[c] = "to_dict_locked" => lock[cjob[c]] = Client(c)
    /\ \A j \in Jobs :
          /\ pc[j] \in WorkerWaits => ~HoldsJobLock(Worker(j))
          /\ lock[j] = Worker(j) <=> pc[j] \in WorkerLocked
          /\ \A k \in Jobs \ {j} : lock[k] # Worker(j)

\* C23 witness: a handler is inside remove under the manager's lock while
\* the worker is inside _record_error under the job's lock and the manager's
\* lock holder needs nothing from it
C23_Witness ==
    /\ mgr_lock = Client(2)
    /\ cpc[2] = "remove_locked"
    /\ lock[1] = Worker(1)
    /\ pc[1] = "record_error_append"

\* ------------------------------------------------ C24
\* C24: a job has one worker, started once, and that worker is inside at
\* most one upload_file call: whenever it is inside the call for a file,
\* every file before that one in the list has its outcome recorded in
\* results or errors and counted, and no later file has been touched.
C24_UploadsSequential ==
    /\ [](\A j \in Jobs :
             InCall(j) \/ Returned(j) \/ Raised(j) =>
                 /\ \E k \in 1..Len(files[j]) : files[j][k] = file_path[j]
                 /\ LET i == PositionOf(j, file_path[j])
                        done == {files[j][k] : k \in 1..(i - 1)}
                    IN  /\ InCall(j) =>
                              /\ uploaded[j] = i - 1
                              /\ NamesOf(results[j]) \cup NamesOf(errors[j]) = done
                        /\ NamesOf(results[j]) \cup NamesOf(errors[j])
                              \subseteq done \cup {file_path[j]})
    /\ [][\A j \in Jobs :
             /\ pc[j] # "idle" => pc'[j] # "idle"
             /\ pc[j] \notin {"idle", "run"} => pc'[j] # "run"
             /\ InCall(j) /\ InCall(j)' => file_path'[j] = file_path[j]]_vars

\* C24 witness: the second file of a two-file batch is being uploaded, after
\* a retry, and the first file's failure is already recorded
C24_Witness ==
    /\ batch_size[1] = 2
    /\ total[1] = 2
    /\ pc[1] = "uf_loop"
    /\ attempt[1] = 1
    /\ file_path[1] = files[1][2]
    /\ uploaded[1] = 1
    /\ Len(errors[1]) = 1

\* ------------------------------------------------ C25
\* the worker of job j is in an HTTP exchange, a backoff sleep or the pause
\* between batches
Suspended(j) == pc[j] \in {"uf_loop", "uf_sleep", "pause"}

\* C25: a worker in an HTTP call, a backoff sleep or an inter-batch pause
\* holds no lock, so nothing waits for it: a handler entering add, get or
\* remove is held up only by another handler inside the manager's lock, a
\* to_dict on the same job only by another reader, and every other job's
\* started and unfinished worker can take its next step unless a reader
\* holds that job's lock.
C25_SuspendedHoldsNoLock ==
    \A j \in Jobs :
        Suspended(j) =>
            /\ mgr_lock # Worker(j)
            /\ \A k \in Jobs : lock[k] # Worker(j)
            /\ \A c \in Clients :
                  /\ cpc[c] = "add" =>
                        \/ ENABLED AddAcquire(c)
                        \/ \E d \in Clients \ {c} : mgr_lock = Client(d)
                  /\ cpc[c] = "idle" =>
                        \/ \A id \in Jobs : /\ ENABLED GetAcquire(c, id)
                                            /\ ENABLED RemoveAcquire(c, id)
                        \/ \E d \in Clients \ {c} : mgr_lock = Client(d)
                  /\ cpc[c] = "to_dict" /\ cjob[c] = j =>
                        \/ ENABLED ToDictAcquire(c)
                        \/ \E d \in Clients \ {c} : lock[j] = Client(d)
            /\ \A k \in Jobs \ {j} :
                  pc[k] \notin {"idle", "done", "crashed"} =>
                      \/ ENABLED WorkerStep(k, Responses({"QmA"}))
                      \/ \E c \in Clients : lock[k] = Client(c)

\* C25 witness: the first job's worker sleeps after a 429 while a handler is
\* about to take a snapshot of that job and the second job's worker is
\* about to record its result
C25_Witness ==
    /\ pc[1] = "uf_sleep"
    /\ Is429(Last(log[1]))
    /\ cpc[2] = "to_dict"
    /\ cjob[2] = 1
    /\ pc[2] = "record_result"

\* ------------------------------------------------ C26
\* the responses that the upload_file call of job j has received, in order
OutcomesOf(j) ==
    LET r == Requests(log[j])
    IN  [i \in 1..Len(r) |-> Response(r[i].err, r[i].status, r[i].cid)]

\* how the upload_file call of job j ended
UploadFileOutcome(j) ==
    IF Returned(j) THEN "returned" ELSE exc[j].type

\* C26: given the responses that a finished upload_file call has received,
\* and the same max_retries and backoff, _upload_batch sends the same
\* number of requests, sleeps the same durations in the same order and ends
\* the same way (a result, the propagated error, or the RuntimeError of
\* exhausted retries), and its rate_limit_hits is the number of
\* on_rate_limit calls that upload_file made.
C26_BatchFollowsSamePolicy ==
    \A j \in Jobs :
        (pc[j] \in {"record_result", "except"}) =>
            LET b == UploadBatch(OutcomesOf(j), MAX_RETRIES, BASE_BACKOFF)
                s == Sleeps(log[j])
            IN  /\ b.requests = Len(Requests(log[j]))
                /\ b.sleeps = [i \in 1..Len(s) |-> s[i].d]
                /\ b.outcome = UploadFileOutcome(j)
                /\ b.rate_limit_hits = Len(Callbacks(log[j]))
                /\ Returned(j) => b.cid = result[j].cid

\* C26 witness: three attempts, a 429, a 503 and a success: one callback,
\* the sleeps of the two curves, and a result
C26_Witness ==
    /\ pc[1] = "record_result"
    /\ MAX_RETRIES = 3
    /\ BASE_BACKOFF = 2
    /\ Statuses(Requests(log[1])) = <<429, 503, 200>>
    /\ Len(Callbacks(log[1])) = 1
    /\ UploadBatch(OutcomesOf(1), 3, 2).sleeps = <<2, 4>>

\* ------------------------------------------------ C27
\* C27: under fair scheduling, with every HTTP call and every sleep
\* returning, a job whose add has been called reaches a terminal status,
\* whatever the responses are and whether or not it is removed meanwhile.
C27_EveryJobTerminates ==
    \A j \in Jobs :
        (\E c \in Clients : cpc[c] = "add" /\ cjob[c] = j)
            ~> (status[j] \in Terminal)

\* C27 witness: the job that exhausted its retries on one file and was
\* removed from the registry during the run has completed with errors
C27_Witness ==
    /\ status[1] = "completed_with_errors"
    /\ pc[1] = "done"
    /\ jobs[1] = 0
    /\ uploaded[1] = 2
    /\ \E i \in 1..Len(errors[1]) : errors[1][i].error.type = "RuntimeError"

\* ------------------------------------------------ C28
\* C28: when an upload_file call has ended, its last event is not a sleep
\* (every backoff sleep was followed by a further attempt) and the call made
\* at most MAX_RETRIES - 1 sleeps.
C28_NoSleepAfterLastAttempt ==
    \A j \in Jobs :
        (Returned(j) \/ Raised(j)) =>
            /\ Len(log[j]) > 0 => ~IsSleep(Last(log[j]))
            /\ Len(Sleeps(log[j])) <= Max(MAX_RETRIES - 1, 0)

\* ------------------------------------------------ C29
\* C29: with MAX_RETRIES <= 0 an upload_file call sends no request, invokes
\* no callback and performs no sleep, never returns a result and raises the
\* retry-exhausted RuntimeError; the finished job holds exactly one error
\* for each of its files, no result, and is completed_with_errors.
C29_NoAttemptAllowed ==
    \A j \in Jobs :
        MAX_RETRIES <= 0 =>
            /\ log[j] = <<>>
            /\ hits429[j] = 0
            /\ rate_limit_hits[j] = 0
            /\ ~Returned(j)
            /\ pc[j] \notin {"uf_sleep", "rate_limit", "rate_limit_locked"}
            /\ results[j] = <<>>
            /\ Raised(j) => exc[j] = RetryExhausted(file_path[j], MAX_RETRIES)
            /\ \A i \in 1..Len(errors[j]) :
                   errors[j][i].error = RetryExhausted(errors[j][i].name, MAX_RETRIES)
            /\ pc[j] = "done" =>
                   /\ status[j] = "completed_with_errors"
                   /\ uploaded[j] = total[j]
                   /\ Len(errors[j]) = total[j]
                   /\ \A k \in 1..Len(files[j]) :
                          Cardinality(EntriesOf(errors[j], files[j][k])) = 1

\* C29 witness: a two-file job ended with two retry-exhausted errors under a
\* negative retry count
C29_Witness ==
    /\ MAX_RETRIES < 0
    /\ pc[1] = "done"
    /\ total[1] = 2
    /\ Len(errors[1]) = 2
    /\ errors[1][2].error.type = "RuntimeError"

\* ------------------------------------------------ C30
\* C30: a job with batch_size <= 0 or with no file has one expected batch,
\* never pauses and takes at most one batch, which is the whole file list in
\* its order; its results and errors follow the file order and when it is
\* done every file is counted (uploaded = total). A job with no file makes
\* no upload_file call, records nothing and its status only ever goes
\* queued -> running -> completed.
C30_DegenerateJobs ==
    /\ [](\A j \in Jobs :
            InRunLoop(j) /\ (batch_size[j] <= 0 \/ files[j] = <<>>) =>
                /\ total_batches[j] = 1
                /\ pauses[j] = 0
                /\ pc[j] # "pause"
                /\ batch_index[j] <= 1
                /\ batch_index[j] = 0 => consumed[j] = 0 /\ batch[j] = <<>>
                /\ batch_index[j] = 1 =>
                      /\ consumed[j] = total[j]
                      /\ batch[j] = SubSeq(files[j], total[j] - Len(batch[j]) + 1,
                                           total[j])
                /\ InCall(j) =>
                      file_path[j] = files[j][total[j] - Len(batch[j])]
                /\ InListOrder(j, results[j])
                /\ InListOrder(j, errors[j])
                /\ pc[j] = "done" =>
                      /\ uploaded[j] = total[j]
                      /\ NamesOf(results[j]) \cup NamesOf(errors[j])
                            = {files[j][i] : i \in 1..total[j]}
                      /\ Len(results[j]) + Len(errors[j]) = total[j]
                      /\ status[j] = FinalStatus(errors[j])
                /\ files[j] = <<>> =>
                      /\ pc[j] \in {"next_batch", "finish", "finish_locked", "done"}
                      /\ batch_index[j] = 0
                      /\ log[j] = <<>>
                      /\ results[j] = <<>> /\ errors[j] = <<>>
                      /\ status[j] = IF pc[j] = "done" THEN "completed"
                                     ELSE "running")
    /\ [][\A j \in Jobs :
            files'[j] = <<>> /\ status'[j] # status[j] =>
                <<status[j], status'[j]>> \in
                    {<<"none", "queued">>, <<"queued", "running">>,
                     <<"running", "completed">>}]_vars

\* C30 witness: a two-file job with batch_size -1 is done after one batch
\* and no pause, one file uploaded and one failed
C30_Witness ==
    /\ batch_size[1] < 0
    /\ total[1] = 2
    /\ pc[1] = "done"
    /\ batch_index[1] = 1
    /\ pauses[1] = 0
    /\ Len(results[1]) = 1
    /\ Len(errors[1]) = 1

\* ------------------------------------------------ C31
IsCall(e) == e.e = "call"
IsFailedCall(e) == e.e = "call" /\ e.outcome # "returned"
IsReturnedCall(e) == e.e = "call" /\ e.outcome = "returned"

\* the run of main is over
CliEnded == cli_pc \in {"printed", "SystemExit"}

\* C31: in a run of the batch loop a failed _upload_batch call is the last
\* thing the loop does (no later call, no pause after it); the batches are
\* attempted once each in batch order; results holds exactly the batches
\* before the failed one, or all the attempted ones, in that order; and the
\* run ends with SystemExit exactly when no call returned.
C31_StopsAtFirstFailure ==
    LET calls == SelectSeq(cli_log, IsCall)
        returned == SelectSeq(cli_log, IsReturnedCall)
    IN  /\ cli_pc # "crashed"
        /\ \A i \in 1..Len(cli_log) :
               IsFailedCall(cli_log[i]) =>
                   /\ i = Len(cli_log)
                   /\ cli_pc \in {"break", "printed", "SystemExit"}
                   /\ Len(cli_results) = cli_log[i].index - 1
        /\ \A i \in 1..Len(calls) : calls[i].index = i
        /\ Len(calls) <= Len(cli_batches)
        /\ Len(cli_results) = Len(returned)
        /\ \A i \in 1..Len(cli_results) :
               /\ returned[i].index = i
               /\ cli_results[i].batch_index = i
               /\ cli_results[i].files = cli_batches[i]
        /\ CliEnded =>
               /\ cli_pc = "SystemExit" <=> returned = <<>>
               /\ cli_log # <<>>
               /\ IsFailedCall(Last(cli_log)) \/ Len(calls) = Len(cli_batches)

\* C31 witness: of three batches the first was uploaded and followed by a
\* pause, the second failed, the third was never attempted, and the run
\* printed the one result
C31_Witness ==
    /\ cli_pc = "printed"
    /\ Len(cli_batches) = 3
    /\ Len(cli_log) = 3
    /\ IsReturnedCall(cli_log[1])
    /\ cli_log[2] = PauseEvent(1)
    /\ IsFailedCall(cli_log[3])
    /\ Len(cli_results) = 1
====
